---------------------------- MODULE Spec2Model ----------------------------
(***************************************************************************)
(* Model of the market-data aggregation layer of the finance dashboard:    *)
(*   finance_service.get_financial_data   (thread-pool fan-out / fan-in)   *)
(*   finance_service.fetch_single_ticker  (per-ticker fetch and derive)    *)
(*   finance_service.calculate_expected_return                             *)
(*                                                                         *)
(* Data conventions.                                                       *)
(*   - An optional value (Python None, a NaN cell of a DataFrame) is the   *)
(*     empty sequence <<>>; a present value v is <<v>>.                    *)
(*   - A DataFrame is [n |-> number of rows, col |-> [column -> Seq(cell)]]*)
(*   - Prices are integers.  calculate_expected_return takes logarithms;   *)
(*     on series whose adjacent ratios are powers of two,                  *)
(*     ln(ratio) = k * ln 2 with k an integer and the annualised           *)
(*     return (exp(mu*252) - 1) * 100 = (2^(252*S/n) - 1) * 100 is known   *)
(*     exactly from the pair (252*S, n); on any other series of non-zero   *)
(*     prices it is (P^(252/n) - 1) * 100 with P the product of the        *)
(*     adjacent ratios, kept as a reduced quotient.                        *)
(***************************************************************************)
EXTENDS Integers, Sequences, FiniteSets, TLC

VARIABLES
    pc,          \* position of the calling thread in get_financial_data
    input,       \* the 'tickers' argument as passed by the caller
    tickers,     \* the normalised list (after line 86)
    executor,    \* "none" | "open" | "shutdown": the ThreadPoolExecutor
    maxWorkers,  \* max_workers of the executor (0 while there is none)
    futures,     \* future_to_ticker, in submission order
    finishOrder, \* finished futures not yet yielded, in completion order
    preFinished, \* futures already finished when as_completed was called
    merged,      \* futures as_completed has yielded to the loop body
    results,     \* the result dict
    arg,         \* argument of the pure function under test
    ret,         \* its return value
    side         \* the call of finance_service_new.get_financial_data that
                 \* runs side by side on the same argument

vars == <<pc, input, tickers, executor, maxWorkers, futures, finishOrder,
          preFinished, merged, results, arg, ret, side>>

-----------------------------------------------------------------------------
(* Bounds of the model *)

\* longest ticker list of the rich-outcome specification
MaxTickers == 2

\* longest ticker list of the pool specification (more symbols than workers)
PoolTickers == 6

(* Program constants *)

\* ThreadPoolExecutor(max_workers=min(len(tickers), 5))
PoolCap == 5

\* if len(log_returns) < 30
MinObservations == 30

\* np.exp(mu_daily * 252)
TradingDays == 252

IndianTopStocks ==
    << "RELIANCE.NS", "TCS.NS", "HDFCBANK.NS", "INFY.NS", "ICICIBANK.NS",
       "HINDUNILVR.NS", "ITC.NS", "SBIN.NS", "BHARTIARTL.NS", "BAJFINANCE.NS" >>

UsTopStocks ==
    << "AAPL", "MSFT", "GOOGL", "AMZN", "NVDA",
       "META", "BRK-B", "JPM", "V", "TSLA" >>

RequiredCols == {"Open", "High", "Low", "Close", "Volume"}

PriceCols == {"Open", "High", "Low", "Close"}

-----------------------------------------------------------------------------
(* Helpers *)

None == << >>

Some(v) == << v >>

Min(a, b) == IF a < b THEN a ELSE b

Range(s) == { s[i] : i \in 1..Len(s) }

\* '.NS' in ticker
HasNSSuffix(t) == \E i \in 1..Len(IndianTopStocks) : IndianTopStocks[i] = t

\* hist.empty
DfEmpty(df) == df.n = 0 \/ DOMAIN df.col = {}

-----------------------------------------------------------------------------
(* Series helpers (pandas) *)

\* Series.dropna(): the present values, in order
DropNa(s) ==
    LET kept == SelectSeq(s, LAMBDA c : c # None)
    IN  [i \in 1..Len(kept) |-> kept[i][1]]

\* fillna(method='ffill') on one column: the last valid value at or before i
FFill(s) ==
    LET f[i \in 0..Len(s)] ==
            IF i = 0 THEN None
            ELSE IF s[i] # None THEN s[i] ELSE f[i - 1]
    IN  [i \in 1..Len(s) |-> f[i]]

\* fillna(method='bfill') on one column: the first valid value at or after i
BFill(s) ==
    LET g[j \in 0..Len(s)] ==
            \* j counts from the end: row Len(s) + 1 - j
            IF j = 0 THEN None
            ELSE IF s[Len(s) + 1 - j] # None THEN s[Len(s) + 1 - j] ELSE g[j - 1]
    IN  [i \in 1..Len(s) |-> g[Len(s) + 1 - i]]

\* hist_clean = hist.copy(); ffill in place, then bfill in place (all columns)
CleanHistory(df) ==
    [n |-> df.n, col |-> [c \in DOMAIN df.col |-> BFill(FFill(df.col[c]))]]

\* hist[col] = hist[col] * conversion_rate (NaN stays NaN)
ScaleColumn(s, rate) ==
    [i \in 1..Len(s) |-> IF s[i] = None THEN None ELSE Some(s[i][1] * rate)]

\* Series.max() / Series.min(): NaN skipped; NaN when nothing is left
SeriesMax(s) ==
    LET p == DropNa(s)
    IN  IF Len(p) = 0 THEN None
        ELSE Some(CHOOSE m \in Range(p) : \A x \in Range(p) : x <= m)

SeriesMin(s) ==
    LET p == DropNa(s)
    IN  IF Len(p) = 0 THEN None
        ELSE Some(CHOOSE m \in Range(p) : \A x \in Range(p) : m <= x)

-----------------------------------------------------------------------------
(* Exact arithmetic *)

\* The formulas of the projection calculator raise 1 + rate/12 to the power
\* of up to 12 * years, and the clamp of calculate_expected_return compares
\* the 252nd power of a price ratio, far beyond the integers of the checker.
\* A natural
\* number is therefore kept as the sequence of its base-10000 digits, lowest
\* first, with no leading zero digit (zero is <<0>>), and a float of the code
\* as the exact quotient [num, den] of two such numbers (not reduced).  The
\* rounding of float arithmetic is not modelled.

RECURSIVE BigOf(_)
BigOf(k) == IF k < 10000 THEN <<k>> ELSE <<k % 10000>> \o BigOf(k \div 10000)

RECURSIVE Trim(_)
Trim(x) ==
    IF Len(x) > 1 /\ x[Len(x)] = 0 THEN Trim(SubSeq(x, 1, Len(x) - 1)) ELSE x

Limb(x, i) == IF i <= Len(x) THEN x[i] ELSE 0

\* x < y: fewer digits, or as many and the highest differing digit is lower
BigLess(x, y) ==
    \/ Len(x) < Len(y)
    \/ /\ Len(x) = Len(y)
       /\ \E i \in 1..Len(x) :
             /\ x[i] < y[i]
             /\ \A j \in (i + 1)..Len(x) : x[j] = y[j]

\* The carry into digit i of x + y is 1 when some lower digit sum overflows
\* and every digit sum between it and i is 9999.
BigAdd(x, y) ==
    LET n == (IF Len(x) > Len(y) THEN Len(x) ELSE Len(y)) + 1
        s == [i \in 1..n |-> Limb(x, i) + Limb(y, i)]
        carry(i) ==
            IF \E j \in 1..(i - 1) :
                  /\ s[j] >= 10000
                  /\ \A k \in (j + 1)..(i - 1) : s[k] = 9999
            THEN 1 ELSE 0
    IN  IF x = <<0>> THEN y
        ELSE IF y = <<0>> THEN x
        ELSE Trim([i \in 1..n |-> (s[i] + carry(i)) % 10000])

\* x - y for x >= y: digit i borrows when a lower digit of x is below that
\* of y and the digits between are equal
BigSub(x, y) ==
    LET n == Len(x)
        borrow(i) ==
            IF \E j \in 1..(i - 1) :
                  /\ Limb(x, j) < Limb(y, j)
                  /\ \A k \in (j + 1)..(i - 1) : Limb(x, k) = Limb(y, k)
            THEN 1 ELSE 0
    IN  IF y = <<0>> THEN x
        ELSE Trim([i \in 1..n |->
                     (Limb(x, i) - Limb(y, i) - borrow(i) + 10000) % 10000])

\* x * d for one digit d: the low halves of the digit products plus their
\* high halves one place up
BigMulDigit(x, d) ==
    IF x = <<0>> \/ d = 0 THEN <<0>>
    ELSE BigAdd(Trim([i \in 1..Len(x) |-> (x[i] * d) % 10000]),
                Trim(<<0>> \o [i \in 1..Len(x) |-> (x[i] * d) \div 10000]))

\* the sum of x * y[i] * 10000^(i-1) for i in lo..hi
RECURSIVE PartialProducts(_, _, _, _)
PartialProducts(x, y, lo, hi) ==
    IF lo = hi
    THEN Trim([j \in 1..(lo - 1) |-> 0] \o BigMulDigit(x, y[lo]))
    ELSE LET mid == (lo + hi) \div 2
         IN  BigAdd(PartialProducts(x, y, lo, mid),
                    PartialProducts(x, y, mid + 1, hi))

BigMul(x, y) ==
    IF x = <<0>> \/ y = <<0>> THEN <<0>>
    ELSE IF y = <<1>> THEN x
    ELSE IF x = <<1>> THEN y
    ELSE IF Len(y) <= Len(x) THEN PartialProducts(x, y, 1, Len(y))
    ELSE PartialProducts(y, x, 1, Len(x))

Rat(n, d) == [num |-> BigOf(n), den |-> BigOf(d)]

RatAdd(x, y) ==
    [num |-> BigAdd(BigMul(x.num, y.den), BigMul(y.num, x.den)),
     den |-> BigMul(x.den, y.den)]

\* x - y for x >= y
RatSub(x, y) ==
    [num |-> BigSub(BigMul(x.num, y.den), BigMul(y.num, x.den)),
     den |-> BigMul(x.den, y.den)]

RatMul(x, y) == [num |-> BigMul(x.num, y.num), den |-> BigMul(x.den, y.den)]

\* x / y for y # 0
RatDiv(x, y) == [num |-> BigMul(x.num, y.den), den |-> BigMul(x.den, y.num)]

\* x ** n for an integer n >= 0, by squaring
RECURSIVE RatPow(_, _)
RatPow(x, n) ==
    IF n = 0 THEN Rat(1, 1)
    ELSE IF n % 2 = 0
    THEN LET h == RatPow(x, n \div 2) IN RatMul(h, h)
    ELSE RatMul(RatPow(x, n - 1), x)

RatEq(x, y) == BigMul(x.num, y.den) = BigMul(y.num, x.den)

\* x ** n for natural numbers, by squaring
RECURSIVE BigPow(_, _)
BigPow(x, n) ==
    IF n = 0 THEN <<1>>
    ELSE IF n % 2 = 0
    THEN LET h == BigPow(x, n \div 2) IN BigMul(h, h)
    ELSE BigMul(BigPow(x, n - 1), x)

RatIsZero(x) == x.num = <<0>>

-----------------------------------------------------------------------------
(* calculate_expected_return *)

\* A percentage returned by calculate_expected_return:
\*   Const(v)      exactly v
\*   Exp2(a, b)    (2^(a/b) - 1) * 100, with b > 0
\*   NaNPct        float NaN
\*   Pow(p, a, b)  ((p.num / p.den)^(a/b) - 1) * 100, with b > 0 and p a
\*                 reduced quotient that is no power of two
Const(v) == [tag |-> "const", a |-> v, b |-> 1]

Exp2(a, b) == IF a = 0 THEN Const(0) ELSE [tag |-> "exp2", a |-> a, b |-> b]

NaNPct == [tag |-> "nan", a |-> 0, b |-> 1]

Pow(p, a, b) == [tag |-> "pow", a |-> a, b |-> b, num |-> p.num, den |-> p.den]

Abs(x) == IF x < 0 THEN 0 - x ELSE x

IsPow2(x) == \E k \in 0..30 : 2^k = x

RECURSIVE Gcd(_, _)
Gcd(a, b) == IF b = 0 THEN a ELSE Gcd(b, a % b)

Reduce(n, d) == [num |-> n \div Gcd(n, d), den |-> d \div Gcd(n, d)]

\* log2 of a power of two (no value for any other number)
Log2(x) == CHOOSE k \in 0..x : 2^k = x

\* The kind of np.log(cur / prev) for two present prices:
\*   x/0 is +-inf or NaN (0/0), log(+inf) = +inf, log(+-0) = -inf, log(<0) = NaN
LogKind(prev, cur) ==
    IF prev = 0
    THEN IF cur > 0 THEN "pinf" ELSE "nan"
    ELSE IF cur = 0 THEN "ninf"
    ELSE IF (prev > 0) = (cur > 0) THEN "fin" ELSE "nan"

\* np.log(cur / prev) in units of ln 2, for a finite log-return
LogValue(prev, cur) == Log2(Abs(cur)) - Log2(Abs(prev))

\* np.log(prices / prices.shift(1)).dropna(): the pairs (prev, cur) kept
LogReturns(prices) ==
    LET pairs == [i \in 1..(Len(prices) - 1) |-> <<prices[i], prices[i + 1]>>]
    IN  SelectSeq(pairs, LAMBDA p : LogKind(p[1], p[2]) # "nan")

\* sum of the finite log-returns, in units of ln 2
RECURSIVE SumLogsOver(_, _, _)
SumLogsOver(lr, lo, hi) ==
    IF lo = hi THEN LogValue(lr[lo][1], lr[lo][2])
    ELSE SumLogsOver(lr, lo, (lo + hi) \div 2)
            + SumLogsOver(lr, (lo + hi) \div 2 + 1, hi)

SumLogs(lr) == IF Len(lr) = 0 THEN 0 ELSE SumLogsOver(lr, 1, Len(lr))

\* log_returns.mean(): "pinf", "ninf", "nan" or "fin" (then SumLogs / Len)
MeanKind(lr) ==
    LET kinds == { LogKind(lr[i][1], lr[i][2]) : i \in 1..Len(lr) }
    IN  IF "pinf" \in kinds /\ "ninf" \in kinds THEN "nan"
        ELSE IF "pinf" \in kinds THEN "pinf"
        ELSE IF "ninf" \in kinds THEN "ninf"
        ELSE "fin"

\* exp(sum of the finite log-returns): the product of the ratios cur / prev,
\* as a reduced quotient
TimesRatio(r, pair) == Reduce(r.num * Abs(pair[2]), r.den * Abs(pair[1]))

\* the product of the ratios of the pairs lo..hi, by halves
RECURSIVE GrowthOver(_, _, _)
GrowthOver(lr, lo, hi) ==
    IF lo = hi THEN TimesRatio([num |-> 1, den |-> 1], lr[lo])
    ELSE LET mid == (lo + hi) \div 2
             left == GrowthOver(lr, lo, mid)
         IN  TimesRatio(GrowthOver(lr, mid + 1, hi), <<left.den, left.num>>)

GrowthFactor(lr) ==
    IF Len(lr) = 0 THEN [num |-> 1, den |-> 1] ELSE GrowthOver(lr, 1, Len(lr))

\* mutant: the annual return is not clamped
NoClamp(a, b) == Exp2(a, b)

\* max(min(annual_return, 100.0), -100.0) for annual_return = (2^(a/b) - 1) * 100
\* 2^(a/b) - 1 > 1 iff a > b;  2^(a/b) - 1 >= -1 always
Clamp(a, b) == IF a > b THEN Const(100) ELSE Exp2(a, b)

\* (p.num / p.den)^k > 2^m, that is p.num^k > 2^m * p.den^k
PowerExceeds(p, k, m) ==
    BigLess(BigMul(BigPow(<<2>>, m), BigPow(BigOf(p.den), k)),
            BigPow(BigOf(p.num), k))

\* the same clamp for annual_return = ((p.num / p.den)^(a/b) - 1) * 100:
\* (p.num / p.den)^(a/b) - 1 > 1 iff (p.num / p.den)^a > 2^b.  A quotient of
\* at most 1 never exceeds; a quotient above 1 exceeds when already its power
\* a \div b exceeds 2 and does not when its power a \div b + 1 does not;
\* only between the two are the full powers compared.
ClampRatio(p, a, b) ==
    IF IsPow2(p.num) /\ IsPow2(p.den)
    THEN Clamp(a * (Log2(p.num) - Log2(p.den)), b)
    ELSE IF p.num <= p.den THEN Pow(p, a, b)
    ELSE IF PowerExceeds(p, a \div b, 1) THEN Const(100)
    ELSE IF ~PowerExceeds(p, a \div b + 1, 1) THEN Pow(p, a, b)
    ELSE IF PowerExceeds(p, a, b) THEN Const(100)
    ELSE Pow(p, a, b)

AnnualReturn(lr) ==
    LET mk == MeanKind(lr)
    IN  IF mk = "nan" THEN NaNPct              \* min/max keep a NaN first argument
        ELSE IF mk = "pinf" THEN Const(100)   \* exp(inf) = inf, clamped
        ELSE IF mk = "ninf" THEN Const(0 - 100) \* exp(-inf) = 0
        ELSE IF \A i \in 1..Len(lr) :
                    IsPow2(Abs(lr[i][1])) /\ IsPow2(Abs(lr[i][2]))
        THEN Clamp(TradingDays * SumLogs(lr), Len(lr))
        ELSE ClampRatio(GrowthFactor(lr), TradingDays, Len(lr))

CalculateExpectedReturn(data) ==
    IF DfEmpty(data) THEN Const(0)
    ELSE IF "Close" \notin DOMAIN data.col THEN Const(0)   \* KeyError, caught
    ELSE LET log_returns == LogReturns(DropNa(data.col["Close"]))
         IN  IF Len(log_returns) < MinObservations THEN Const(0)
             ELSE AnnualReturn(log_returns)

-----------------------------------------------------------------------------
(* fetch_single_ticker *)

\* What the providers do for one task (the environment's choice):
\*   info_raises   stock.info raises
\*   currency      info.get('currency', 'USD')
\*   hist_raises   stock.history(period) raises
\*   hist          the DataFrame stock.history returns
\*   rate_raises   cr.get_rate(currency, 'INR') raises
\*   rate          the rate it returns
\*   derive_raises an exception in lines 118-146 (e.g. the positional
\*                 hist['Close'][-1] under a pandas that rejects it)

\* mutant: the .NS suffix is not looked at
IgnoresSuffix(ticker, oc) == oc.currency

\* lines 109-116: the currency and the converted history
NativeCurrency(ticker, oc) == IF HasNSSuffix(ticker) THEN "INR" ELSE oc.currency

\* mutant: only the Close column is converted
ConvertsCloseOnly(hist, rate) ==
    [n |-> hist.n,
     col |-> [c \in DOMAIN hist.col |->
                IF c = "Close" THEN ScaleColumn(hist.col[c], rate)
                ELSE hist.col[c]]]

Converted(hist, rate) ==
    [n |-> hist.n,
     col |-> [c \in DOMAIN hist.col |->
                IF c \in PriceCols THEN ScaleColumn(hist.col[c], rate)
                ELSE hist.col[c]]]

\* A quotient of two numbers is kept as the pair of its terms; a zero
\* denominator stands for the inf or nan of a float division by zero.
Ratio(n, d) == [num |-> n, den |-> d]

RatioEq(x, y) == x.num * y.den = y.num * x.den

\* mutant: the change is taken relative to the current price
PriceChangeOverCurrent(current, start) ==
    IF current = None \/ start = None THEN None
    ELSE Some(Ratio((current[1] - start[1]) * 100, current[1]))

\* line 120: ((current - start) / start) * 100; a missing operand gives nan
PriceChange(current, start) ==
    IF current = None \/ start = None THEN None
    ELSE Some(Ratio((current[1] - start[1]) * 100, start[1]))

\* the sum of the values lo..hi of a series, by halves
RECURSIVE SumOver(_, _, _)
SumOver(v, lo, hi) ==
    IF lo = hi THEN v[lo]
    ELSE SumOver(v, lo, (lo + hi) \div 2) + SumOver(v, (lo + hi) \div 2 + 1, hi)

\* line 125: Series.mean() skips the missing values; nan when none is left
SeriesMean(s) ==
    LET valid == DropNa(s)
    IN  IF Len(valid) = 0 THEN None
        ELSE Some(Ratio(SumOver(valid, 1, Len(valid)), Len(valid)))

\* lines 118-146: the record built from the (converted) history
Derive(ticker, hist) ==
    [ticker          |-> ticker,
     currency        |-> "INR",
     current_price   |-> hist.col["Close"][hist.n],
     start_price     |-> hist.col["Close"][1],
     price_change    |-> PriceChange(hist.col["Close"][hist.n],
                                     hist.col["Close"][1]),
     high_52week     |-> SeriesMax(hist.col["High"]),
     low_52week      |-> SeriesMin(hist.col["Low"]),
     avg_volume      |-> SeriesMean(hist.col["Volume"]),
     expected_return |-> CalculateExpectedReturn(hist),
     historical_data |-> CleanHistory(hist)]

\* mutant: the rate is looked up before the history is validated
FetchBodyValidatesLate(ticker, oc) ==
    IF oc.info_raises
    THEN [raised |-> TRUE, value |-> None, calls |-> <<"info">>]
    ELSE IF oc.hist_raises
    THEN [raised |-> TRUE, value |-> None, calls |-> <<"info", "history">>]
    ELSE IF NativeCurrency(ticker, oc) # "INR" /\ oc.rate_raises
    THEN [raised |-> TRUE, value |-> None,
          calls |-> <<"info", "history", "rate">>]
    ELSE LET calls == IF NativeCurrency(ticker, oc) # "INR"
                      THEN <<"info", "history", "rate">>
                      ELSE <<"info", "history">>
         IN  IF DfEmpty(oc.hist) \/ ~(RequiredCols \subseteq DOMAIN oc.hist.col)
             THEN [raised |-> FALSE, value |-> None, calls |-> calls]
             ELSE IF oc.derive_raises
             THEN [raised |-> TRUE, value |-> None, calls |-> calls]
             ELSE [raised |-> FALSE,
                   value |-> Some(Derive(ticker,
                                IF NativeCurrency(ticker, oc) # "INR"
                                THEN Converted(oc.hist, oc.rate)
                                ELSE oc.hist)),
                   calls |-> calls]

\* The body of the try block: [raised, value, calls]
FetchBody(ticker, oc) ==
    IF oc.info_raises
    THEN [raised |-> TRUE, value |-> None, calls |-> <<"info">>]
    ELSE IF oc.hist_raises
    THEN [raised |-> TRUE, value |-> None, calls |-> <<"info", "history">>]
    ELSE IF DfEmpty(oc.hist)
    THEN [raised |-> FALSE, value |-> None, calls |-> <<"info", "history">>]
    ELSE IF ~(RequiredCols \subseteq DOMAIN oc.hist.col)
    THEN [raised |-> FALSE, value |-> None, calls |-> <<"info", "history">>]
    ELSE IF NativeCurrency(ticker, oc) # "INR"
    THEN IF oc.rate_raises
         THEN [raised |-> TRUE, value |-> None,
               calls |-> <<"info", "history", "rate">>]
         ELSE IF oc.derive_raises
         THEN [raised |-> TRUE, value |-> None,
               calls |-> <<"info", "history", "rate">>]
         ELSE [raised |-> FALSE,
               value |-> Some(Derive(ticker, Converted(oc.hist, oc.rate))),
               calls |-> <<"info", "history", "rate">>]
    ELSE IF oc.derive_raises
         THEN [raised |-> TRUE, value |-> None, calls |-> <<"info", "history">>]
         ELSE [raised |-> FALSE, value |-> Some(Derive(ticker, oc.hist)),
               calls |-> <<"info", "history">>]

\* try: ... except Exception: return None
FetchSingleTicker(ticker, oc) ==
    LET b == FetchBody(ticker, oc)
    IN  IF b.raised
        THEN [raised |-> FALSE, value |-> None, calls |-> b.calls]
        ELSE b

-----------------------------------------------------------------------------
(* The environment: inputs of the caller and outcomes of the providers *)

Cells(vals) == [i \in 1..Len(vals) |-> Some(vals[i])]

\* a two-bar history with every required column and no gap
SampleHist ==
    [n |-> 2,
     col |-> [c \in RequiredCols |->
                IF c = "Volume" THEN Cells(<<10, 30>>)
                ELSE IF c = "High" THEN Cells(<<3, 5>>)
                ELSE IF c = "Low" THEN Cells(<<1, 2>>)
                ELSE Cells(<<2, 4>>)]]

\* the provider's answer for an unknown symbol: the columns and no row
EmptyHist == [n |-> 0, col |-> [c \in RequiredCols |-> << >>]]

\* an answer that lacks the Volume column
NoVolumeHist ==
    [n |-> 2, col |-> [c \in PriceCols |-> SampleHist.col[c]]]

OkOutcome ==
    [info_raises |-> FALSE, currency |-> "USD", hist_raises |-> FALSE,
     hist |-> SampleHist, rate_raises |-> FALSE, rate |-> 2,
     derive_raises |-> FALSE]

\* every way one task can end
Outcomes ==
    { OkOutcome,
      [OkOutcome EXCEPT !.info_raises = TRUE],
      [OkOutcome EXCEPT !.hist_raises = TRUE],
      [OkOutcome EXCEPT !.hist = EmptyHist],
      [OkOutcome EXCEPT !.hist = NoVolumeHist],
      [OkOutcome EXCEPT !.rate_raises = TRUE],
      [OkOutcome EXCEPT !.derive_raises = TRUE] }

\* The provider of the pool specification answers each symbol in one way:
\* the 2nd symbol of the list is unknown to it (no row), the metadata of the
\* 4th cannot be fetched, the rate lookup of the 6th fails, the 7th comes
\* without its Volume column; every other symbol is found.
PoolOutcomes(t) ==
    IF t = UsTopStocks[2] THEN { [OkOutcome EXCEPT !.hist = EmptyHist] }
    ELSE IF t = UsTopStocks[4] THEN { [OkOutcome EXCEPT !.info_raises = TRUE] }
    ELSE IF t = UsTopStocks[6] THEN { [OkOutcome EXCEPT !.rate_raises = TRUE] }
    ELSE IF t = UsTopStocks[7] THEN { [OkOutcome EXCEPT !.hist = NoVolumeHist] }
    ELSE { OkOutcome }

StrInput(s) == [kind |-> "str", sym |-> s, list |-> << >>]

ListInput(l) == [kind |-> "list", sym |-> "", list |-> l]

SmallSymbols == { IndianTopStocks[2], UsTopStocks[1] }

\* a single symbol, or a list of at most MaxTickers symbols (repeats allowed)
Inputs ==
    { StrInput(s) : s \in SmallSymbols }
    \cup { ListInput(l) :
             l \in UNION { [1..n -> SmallSymbols] : n \in 0..MaxTickers } }

\* the first n top stocks of the US market, from the pool's cap upwards
PoolInputs ==
    { ListInput(SubSeq(UsTopStocks, 1, n)) : n \in PoolCap..PoolTickers }

-----------------------------------------------------------------------------
(* get_financial_data *)

\* mutant: the guard for an empty list is missing
EmptyGuardMissing(t) == FALSE

\* if not tickers
IsEmptyInput(t) == Len(t) = 0

\* mutant: one worker per ticker, without the cap
WorkerPerTicker(t) == Len(t)

\* max_workers=min(len(tickers), 5)
WorkerCount(t) == Min(Len(t), PoolCap)

Running == { i \in 1..Len(futures) : futures[i].state = "running" }

Finished == { i \in 1..Len(futures) : futures[i].state = "finished" }

Queued == { i \in 1..Len(futures) : futures[i].state = "queued" }

\* the work queue is first in, first out
NextQueued == CHOOSE i \in Queued : \A j \in Queued : i <= j

\* mutant: a worker thread runs one task and is never reused
WorkerRunsOneTask == Cardinality(Running \cup Finished) < maxWorkers

\* a worker thread is idle, or may still be spawned
WorkerFree == Cardinality(Running) < maxWorkers

\* the futures that finished after as_completed was called, oldest first
WaiterQueue == SelectSeq(finishOrder, LAMBDA i : i \notin preFinished)

\* mutant: the futures are waited for in submission order
YieldInSubmissionOrder(i) ==
    /\ i \in Finished \ merged
    /\ \A j \in 1..(i - 1) : j \in merged

\* as_completed: the futures found finished at the call come first, in the order
\* of a set; the others follow in the order in which they finish
CanYield(i) ==
    /\ i \in Finished \ merged
    /\ \/ i \in preFinished
       \/ /\ preFinished \subseteq merged
          /\ WaiterQueue # << >>
          /\ i = Head(WaiterQueue)

\* results[ticker] = data (an existing key is overwritten)
Store(res, key, data) ==
    [k \in DOMAIN res \cup {key} |-> IF k = key THEN data ELSE res[k]]

\* mutant: the test 'if data:' is missing
MergeWithoutTest(res, fut) ==
    IF fut.raised THEN res
    ELSE [k \in DOMAIN res \cup {fut.ticker} |->
            IF k = fut.ticker
            THEN (IF fut.result = None THEN [ticker |-> fut.ticker]
                  ELSE fut.result[1])
            ELSE res[k]]

\* mutant: the entry is stored under the last ticker of the list
MergeUnderLastTicker(res, fut) ==
    IF fut.raised \/ fut.result = None THEN res
    ELSE [k \in DOMAIN res \cup {tickers[Len(tickers)]} |->
            IF k = tickers[Len(tickers)] THEN fut.result[1] ELSE res[k]]

\* mutant: an entry that is already stored is kept
MergeKeepsFirst(res, fut) ==
    IF fut.raised \/ fut.result = None \/ fut.ticker \in DOMAIN res THEN res
    ELSE Store(res, fut.ticker, fut.result[1])

\* lines 160-166: the loop body for one yielded future
MergeInto(res, fut) ==
    IF fut.raised THEN res                 \* future.result() raises, caught
    ELSE IF fut.result = None THEN res     \* if data:
    ELSE Store(res, fut.ticker, fut.result[1])

EmptyDict == [k \in {} |-> None]

\* finance_service_new.get_financial_data before it is called
IdleSide ==
    [pc |-> "idle", tickers |-> << >>, maxWorkers |-> 0, futures |-> << >>,
     finishOrder |-> << >>, preFinished |-> {}, merged |-> {},
     results |-> EmptyDict]

\* the characters of a symbol, what iterating over a str yields
Characters(s) ==
    IF s = UsTopStocks[1] THEN <<"A", "A", "P", "L">>
    ELSE <<"T", "C", "S", ".", "N", "S">>

\* mutant: a str is not wrapped and is iterated character by character
IteratesString(inp) ==
    IF inp.kind = "str" THEN Characters(inp.sym) ELSE inp.list

\* lines 85-86: if isinstance(tickers, str): tickers = [tickers]
Normalise(inp) == IF inp.kind = "str" THEN <<inp.sym>> ELSE inp.list

\* lines 84-89 and the creation of the executor (line 153)
Call ==
    /\ pc = "idle"
    /\ LET t == Normalise(input)
       IN  /\ tickers' = t
           /\ IF IsEmptyInput(t)
              THEN /\ pc' = "returned"
                   /\ UNCHANGED <<executor, maxWorkers>>
              ELSE IF WorkerCount(t) <= 0
              THEN /\ pc' = "raised"   \* ValueError: max_workers must be > 0
                   /\ UNCHANGED <<executor, maxWorkers>>
              ELSE /\ pc' = "submit"
                   /\ executor' = "open"
                   /\ maxWorkers' = WorkerCount(t)
    /\ UNCHANGED <<input, futures, finishOrder, preFinished, merged, results,
                   arg, ret, side>>

\* executor.submit(fetch_single_ticker, ticker) for the next ticker of the list
Submit ==
    /\ pc = "submit"
    /\ Len(futures) < Len(tickers)
    /\ futures' = Append(futures,
                     [ticker |-> tickers[Len(futures) + 1], state |-> "queued",
                      raised |-> FALSE, result |-> None, oc |-> None,
                      calls |-> << >>])
    /\ UNCHANGED <<pc, input, tickers, executor, maxWorkers, finishOrder,
                   preFinished, merged, results, arg, ret, side>>

\* a worker takes the oldest queued work item
StartTask ==
    /\ executor = "open"
    /\ Queued # {}
    /\ WorkerFree
    /\ futures' = [futures EXCEPT ![NextQueued].state = "running"]
    /\ UNCHANGED <<pc, input, tickers, executor, maxWorkers, finishOrder,
                   preFinished, merged, results, arg, ret, side>>

\* mutant: the worker stores its record in the result mapping itself
FinishTaskWritesResults(i, oc) ==
    /\ i \in Running
    /\ LET r == FetchSingleTicker(futures[i].ticker, oc)
       IN  /\ futures' = [futures EXCEPT ![i].state = "finished",
                                         ![i].raised = r.raised,
                                         ![i].result = r.value,
                                         ![i].oc = Some(oc),
                                         ![i].calls = r.calls]
           /\ results' = IF r.value = None THEN results
                         ELSE Store(results, futures[i].ticker, r.value[1])
    /\ finishOrder' = Append(finishOrder, i)
    /\ UNCHANGED <<pc, input, tickers, executor, maxWorkers, preFinished,
                   merged, arg, ret, side>>

\* task i runs fetch_single_ticker to its end; the providers answer with oc
FinishTask(i, oc) ==
    /\ i \in Running
    /\ LET r == FetchSingleTicker(futures[i].ticker, oc)
       IN  futures' = [futures EXCEPT ![i].state = "finished",
                                      ![i].raised = r.raised,
                                      ![i].result = r.value,
                                      ![i].oc = Some(oc),
                                      ![i].calls = r.calls]
    /\ finishOrder' = Append(finishOrder, i)
    /\ UNCHANGED <<pc, input, tickers, executor, maxWorkers, preFinished,
                   merged, results, arg, ret, side>>

\* as_completed(future_to_ticker) is called once every ticker is submitted
BeginCollect ==
    /\ pc = "submit"
    /\ Len(futures) = Len(tickers)
    /\ pc' = "collect"
    /\ preFinished' = Finished
    /\ UNCHANGED <<input, tickers, executor, maxWorkers, futures, finishOrder,
                   merged, results, arg, ret, side>>

\* one iteration of the for loop: as_completed yields future i
Merge(i) ==
    /\ pc = "collect"
    /\ CanYield(i)
    /\ results' = MergeInto(results, futures[i])
    /\ merged' = merged \cup {i}
    /\ finishOrder' = SelectSeq(finishOrder, LAMBDA j : j # i)
    /\ UNCHANGED <<pc, input, tickers, executor, maxWorkers, futures,
                   preFinished, arg, ret, side>>

\* mutant: the call returns what is merged so far, without waiting
ReturnWithoutWaiting ==
    /\ pc = "collect"
    /\ pc' = "returned"
    /\ executor' = "shutdown"
    /\ UNCHANGED <<input, tickers, maxWorkers, futures, finishOrder,
                   preFinished, merged, results, arg, ret, side>>

\* as_completed is exhausted; the with block shuts the executor down; return
Return ==
    /\ pc = "collect"
    /\ merged = 1..Len(futures)
    /\ pc' = "returned"
    /\ executor' = "shutdown"
    /\ UNCHANGED <<input, tickers, maxWorkers, futures, finishOrder,
                   preFinished, merged, results, arg, ret, side>>

InitAgg(ins) ==
    /\ pc = "idle"
    /\ input \in ins
    /\ tickers = << >>
    /\ executor = "none"
    /\ maxWorkers = 0
    /\ futures = << >>
    /\ finishOrder = << >>
    /\ preFinished = {}
    /\ merged = {}
    /\ results = EmptyDict
    /\ side = IdleSide
    /\ arg = None
    /\ ret = None

Init == InitAgg(Inputs)

Next ==
    \/ Call
    \/ Submit
    \/ StartTask
    \/ \E i \in 1..Len(futures), oc \in Outcomes : FinishTask(i, oc)
    \/ BeginCollect
    \/ \E i \in 1..Len(futures) : Merge(i)
    \/ Return

Spec == Init /\ [][Next]_vars

(* The pool specification: more symbols than workers *)

InitPool == InitAgg(PoolInputs)

NextPool ==
    \/ Call
    \/ Submit
    \/ StartTask
    \/ \E i \in 1..Len(futures) :
          \E oc \in PoolOutcomes(futures[i].ticker) : FinishTask(i, oc)
    \/ BeginCollect
    \/ \E i \in 1..Len(futures) : Merge(i)
    \/ Return

SpecPool == InitPool /\ [][NextPool]_vars

-----------------------------------------------------------------------------
(* calculate_expected_return on its own *)

\* longest close series given to calculate_expected_return
MaxBars == 33

\* The close series: a level that steps once from lo to hi after bar 'at',
\* with up to two bars replaced by a missing, a zero or a negative value.
Anomaly(kind, v) ==
    IF kind = "nan" THEN None
    ELSE IF kind = "zero" THEN Some(0)
    ELSE IF kind = "neg" THEN Some(0 - v)
    ELSE Some(v)

CloseSeries(len, lo, hi, at, p1, k1, p2, k2) ==
    [i \in 1..len |->
        LET v == IF i <= at THEN lo ELSE hi
        IN  IF i = p2 /\ k2 # "none" THEN Anomaly(k2, v)
            ELSE IF i = p1 THEN Anomaly(k1, v)
            ELSE Some(v)]

CloseFrame(s) == [n |-> Len(s), col |-> [c \in {"Close"} |-> s]]

SeriesLengths == {0, 1, 2} \cup (MinObservations - 1)..MaxBars

AnomalyKinds == {"none", "nan", "zero", "neg"}

ReturnInputs ==
    { CloseFrame(CloseSeries(len, lv[1], lv[2], len \div 2, p1, k1, p2, k2)) :
        len \in SeriesLengths,
        lv \in { <<2, 2>>, <<1, 2>>, <<2, 1>>, <<1, 4>> },
        p1 \in {1, 16}, k1 \in AnomalyKinds,
        p2 \in {2, 17, 29}, k2 \in AnomalyKinds }

InitReturn ==
    /\ pc = "er_call"
    /\ arg \in { Some(df) : df \in ReturnInputs }
    /\ ret = None
    /\ input = ListInput(<< >>)
    /\ tickers = << >>
    /\ executor = "none"
    /\ maxWorkers = 0
    /\ futures = << >>
    /\ finishOrder = << >>
    /\ preFinished = {}
    /\ merged = {}
    /\ results = EmptyDict
    /\ side = IdleSide

CallExpectedReturn ==
    /\ pc = "er_call"
    /\ ret' = Some(CalculateExpectedReturn(arg[1]))
    /\ pc' = "er_done"
    /\ UNCHANGED <<arg, input, tickers, executor, maxWorkers, futures,
                   finishOrder, preFinished, merged, results, side>>

NextReturn == CallExpectedReturn

SpecReturn == InitReturn /\ [][NextReturn]_vars

-----------------------------------------------------------------------------
(* fetch_single_ticker on its own, over histories with gaps *)

\* longest history given to fetch_single_ticker
MaxHistBars == 3

\* bar i of a gap-free history: Low <= Open, Close <= High
BaseValue(c, i) ==
    IF c = "Open" THEN 2 * i
    ELSE IF c = "High" THEN 2 * i + 3
    ELSE IF c = "Low" THEN 2 * i - 1
    ELSE IF c = "Close" THEN 2 * i + 1
    ELSE 10 * i

\* a history of len bars whose Close, Volume and other columns miss the bars
\* of gapC, gapV and gapO
GapHist(len, gapC, gapV, gapO) ==
    [n |-> len,
     col |-> [c \in RequiredCols |->
                [i \in 1..len |->
                    LET gap == IF c = "Close" THEN gapC
                               ELSE IF c = "Volume" THEN gapV ELSE gapO
                    IN  IF i \in gap THEN None ELSE Some(BaseValue(c, i))]]]

DeriveHists ==
    UNION { { GapHist(len, gc, gv, go) :
                gc \in SUBSET (1..len), gv \in SUBSET (1..len),
                go \in SUBSET (1..len) } : len \in 1..MaxHistBars }

\* the currencies the metadata names and the rates the provider quotes
Currencies == {"USD", "INR"}
Rates == {2, 3}

FetchInputs ==
    { [ticker |-> t,
       oc |-> [OkOutcome EXCEPT !.hist = h, !.currency = c, !.rate = r]] :
        t \in SmallSymbols, h \in DeriveHists, c \in Currencies, r \in Rates }

InitFetch ==
    /\ pc = "fetch_call"
    /\ arg \in { Some(a) : a \in FetchInputs }
    /\ ret = None
    /\ input = ListInput(<< >>)
    /\ tickers = << >>
    /\ executor = "none"
    /\ maxWorkers = 0
    /\ futures = << >>
    /\ finishOrder = << >>
    /\ preFinished = {}
    /\ merged = {}
    /\ results = EmptyDict
    /\ side = IdleSide

CallFetch ==
    /\ pc = "fetch_call"
    /\ ret' = FetchSingleTicker(arg[1].ticker, arg[1].oc)
    /\ pc' = "fetch_done"
    /\ UNCHANGED <<arg, input, tickers, executor, maxWorkers, futures,
                   finishOrder, preFinished, merged, results, side>>

NextFetch == CallFetch

SpecFetch == InitFetch /\ [][NextFetch]_vars

-----------------------------------------------------------------------------
(* Properties *)

Distinct(seq) == \A i, j \in 1..Len(seq) : i # j => seq[i] # seq[j]

TaskDone(i) == futures[i].oc # None

\* the task's providers answered so that a record can be derived: the metadata
\* and a non-empty history with every required column are fetched, and nothing
\* raises while the record is derived (the rate lookup included)
Succeeds(ticker, oc) ==
    /\ ~oc.info_raises
    /\ ~oc.hist_raises
    /\ oc.hist.n > 0
    /\ RequiredCols \subseteq DOMAIN oc.hist.col
    /\ (NativeCurrency(ticker, oc) # "INR" => ~oc.rate_raises)
    /\ ~oc.derive_raises

TaskSucceeded(i) == TaskDone(i) /\ Succeeds(futures[i].ticker, futures[i].oc[1])

\* C1: no exception escapes get_financial_data, whatever the providers do; what
\* it returns is a mapping keyed by requested symbols, and the empty mapping
\* when every task failed.
C1_NeverRaises ==
    /\ pc # "raised"
    /\ pc = "returned" =>
         /\ DOMAIN results \subseteq Range(tickers)
         /\ (\A i \in 1..Len(futures) : ~TaskSucceeded(i)) => results = EmptyDict

\* a call has returned the empty mapping after two tasks failed by raising
C1_Witness ==
    /\ pc = "returned"
    /\ Len(futures) >= 2
    /\ \A i \in 1..Len(futures) : ~TaskSucceeded(i)
    /\ \E i, j \in 1..Len(futures) :
          /\ futures[i].oc[1].info_raises
          /\ futures[j].oc[1].rate_raises /\ "rate" \in Range(futures[j].calls)
    /\ results = EmptyDict

\* C2: for distinct symbols, the keys of the returned mapping are exactly the
\* symbols whose task fetched a valid history and derived its record without an
\* exception; a failing symbol adds no key and removes none.
C2_KeysAreSuccesses ==
    (pc = "returned" /\ Distinct(tickers)) =>
        DOMAIN results =
            { tickers[i] : i \in { j \in 1..Len(futures) : TaskSucceeded(j) } }

\* five symbols were requested, two failed, and three entries are returned
C2_Witness ==
    /\ pc = "returned"
    /\ Len(tickers) = 5
    /\ Distinct(tickers)
    /\ Cardinality({ i \in 1..Len(futures) : ~TaskSucceeded(i) }) = 2
    /\ Cardinality(DOMAIN results) = 3

\* C3: at most 5 fetch tasks are in flight at any time.
C3_AtMostFiveInFlight == Cardinality(Running) <= PoolCap

\* more than five symbols: five tasks run and another waits in the queue
C3_Witness ==
    /\ Len(tickers) > PoolCap
    /\ Cardinality(Running) = PoolCap
    /\ Queued # {}

\* C4: an empty list of symbols returns the empty mapping; no executor is
\* created, no task is submitted and no provider is called.
C4_EmptyInput ==
    (input.kind = "list" /\ input.list = << >>) =>
        /\ pc \in {"idle", "returned"}
        /\ executor = "none"
        /\ futures = << >>
        /\ results = EmptyDict

\* the call with the empty list has returned
C4_Witness ==
    /\ input.kind = "list" /\ input.list = << >>
    /\ pc = "returned"
    /\ results = EmptyDict

\* the tasks that asked the market-data provider for the history of symbol s
HistoryRequests(s) ==
    { i \in 1..Len(futures) :
        futures[i].ticker = s /\ "history" \in Range(futures[i].calls) }

\* C5: the market-data provider is asked at most once for each symbol, also
\* when the symbol is listed twice.
C5_OneFetchPerSymbol ==
    \A s \in Range(tickers) : Cardinality(HistoryRequests(s)) <= 1

\* C6: every entry of the result mapping, in every state, carries its own key
\* in its 'ticker' field.
C6_TickerFieldIsKey ==
    \A k \in DOMAIN results : results[k].ticker = k

\* two entries are stored, the second while results are still being merged
C6_Witness ==
    /\ Cardinality(DOMAIN results) = 2
    /\ \E i \in 1..Len(futures) :
          i \in merged /\ futures[i].ticker # tickers[Len(tickers)]

\* C7 (as stated): every merge takes the unmerged future that finished first.
C7_MergeInCompletionOrder ==
    [][merged' # merged => merged' \ merged = {Head(finishOrder)}]_vars

\* C7 (amended): a finished, unmerged future never waits: some merge is
\* possible whatever the other tasks are doing; and each merge takes either a
\* future that was already finished when as_completed was called (these come
\* first, in no particular order) or, once those are merged, the one that
\* finished first among the others.
C7_MergeAsCompleted ==
    /\ [](pc = "collect" /\ Finished \ merged # {}
            => ENABLED (\E i \in 1..Len(futures) : Merge(i)))
    /\ [][merged' # merged =>
            \E i \in Finished \ merged :
                /\ merged' = merged \cup {i}
                /\ \/ i \in preFinished
                   \/ /\ preFinished \subseteq merged
                      /\ i = Head(WaiterQueue)]_vars

\* the entry of a later symbol is merged while an earlier task is still running
C7_Witness ==
    /\ pc = "collect"
    /\ \E i, j \in 1..Len(futures) :
          /\ i < j
          /\ i \in Running
          /\ j \in merged
          /\ futures[j].ticker \in DOMAIN results

\* the adjacent bars (t-1, t) that are both present and strictly positive
ValidPairs(s) ==
    { i \in 2..Len(s) :
        /\ s[i - 1] # None /\ s[i] # None
        /\ s[i - 1][1] > 0 /\ s[i][1] > 0 }

\* C8: with fewer than 30 valid adjacent pairs of bars, the result is 0.0.
C8_ZeroBelowThirtyValidPairs ==
    (pc = "er_done"
        /\ Cardinality(ValidPairs(arg[1].col["Close"])) < MinObservations)
    => ret = Some(Const(0))

Positive(s) == \A i \in 1..Len(s) : s[i] # None => s[i][1] > 0

\* the percentage lies in [-100, 100]: (2^(a/b) - 1) * 100 <= 100 iff a <= b
InRange(r) ==
    \/ r.tag = "const" /\ 0 - 100 <= r.a /\ r.a <= 100
    \/ r.tag = "exp2" /\ r.a <= r.b

\* C9: for a non-empty close series without a non-positive value, the result
\* lies in [-100, 100].
C9_ResultWithinBounds ==
    (pc = "er_done" /\ arg[1].n > 0 /\ Positive(arg[1].col["Close"]))
    => InRange(ret[1])

\* a positive series whose annualised return exceeds 100 has returned 100
C9_Witness ==
    /\ pc = "er_done"
    /\ arg[1].n >= MinObservations + 1
    /\ Positive(arg[1].col["Close"])
    /\ LET lr == LogReturns(DropNa(arg[1].col["Close"]))
       IN  /\ Len(lr) >= MinObservations
           /\ TradingDays * SumLogs(lr) > Len(lr)
    /\ ret = Some(Const(100))

\* C10: the cleaned history of a returned entry has no missing value in any
\* price or volume field.
C10_NoMissingInCleanHistory ==
    (pc = "fetch_done" /\ ret.value # None) =>
        \A c \in RequiredCols : \A i \in 1..ret.value[1].historical_data.n :
            ret.value[1].historical_data.col[c][i] # None

\* C11: the current price of a returned entry is the last close of its
\* cleaned history, and its price change is (current - start) / start * 100
\* with start the first close of the cleaned history, also when the raw first
\* or last close is missing (the history has some valid close).
C11_PriceFromCleanHistory ==
    (/\ pc = "fetch_done"
     /\ ret.value # None
     /\ \E i \in 1..arg[1].oc.hist.n : arg[1].oc.hist.col["Close"][i] # None) =>
        LET e == ret.value[1]
            close == e.historical_data.col["Close"]
            last == close[e.historical_data.n]
            first == close[1]
        IN  /\ e.current_price = last
            /\ e.price_change # None
            /\ last # None /\ first # None =>
                 RatioEq(e.price_change[1],
                         Ratio((last[1] - first[1]) * 100, first[1]))

\* task i asked for a rate it needed and the lookup failed; the metadata and
\* the history were fetched and valid
RateLookupFailed(i) ==
    /\ TaskDone(i)
    /\ LET oc == futures[i].oc[1]
       IN  /\ ~oc.info_raises /\ ~oc.hist_raises /\ ~oc.derive_raises
           /\ oc.hist.n > 0
           /\ RequiredCols \subseteq DOMAIN oc.hist.col
           /\ NativeCurrency(futures[i].ticker, oc) # "INR"
           /\ oc.rate_raises

\* C12: a symbol whose rate lookup fails is still a key of the returned
\* mapping, with its prices left unconverted (rate 1.0).
C12_RateFailureKeepsSymbol ==
    pc = "returned" =>
        \A i \in 1..Len(futures) :
            (RateLookupFailed(i) /\ Distinct(tickers)) =>
                /\ futures[i].ticker \in DOMAIN results
                /\ results[futures[i].ticker].historical_data
                     = CleanHistory(futures[i].oc[1].hist)

-----------------------------------------------------------------------------
(* convert_to_inr *)

\* What the rate provider does for one lookup: it raises, or returns rate.
\* The result of a call is [raised, value, calls].

\* lines 27-32: the body of the try block
ConvertBody(amount, from_currency, ro) ==
    IF from_currency = "INR"
    THEN [raised |-> FALSE, value |-> Some(amount), calls |-> << >>]
    ELSE IF ro.raises
    THEN [raised |-> TRUE, value |-> None, calls |-> <<"rate">>]
    ELSE [raised |-> FALSE, value |-> Some(amount * ro.rate),
          calls |-> <<"rate">>]

\* mutant: no except clause
ConvertWithoutCatch(amount, from_currency, ro) ==
    ConvertBody(amount, from_currency, ro)

\* lines 25-34: try: ... except Exception: return amount
ConvertToInr(amount, from_currency, ro) ==
    LET b == ConvertBody(amount, from_currency, ro)
    IN  IF b.raised
        THEN [raised |-> FALSE, value |-> Some(amount), calls |-> b.calls]
        ELSE b

MaxAmount == 5

SourceCurrencies == {"INR", "USD", "EUR"}

ConvertInputs ==
    [amount : 0..MaxAmount, from_currency : SourceCurrencies,
     ro : [raises : BOOLEAN, rate : Rates]]

InitConvert ==
    /\ pc = "convert_call"
    /\ arg \in { Some(a) : a \in ConvertInputs }
    /\ ret = None
    /\ input = ListInput(<< >>)
    /\ tickers = << >>
    /\ executor = "none"
    /\ maxWorkers = 0
    /\ futures = << >>
    /\ finishOrder = << >>
    /\ preFinished = {}
    /\ merged = {}
    /\ results = EmptyDict
    /\ side = IdleSide

CallConvert ==
    /\ pc = "convert_call"
    /\ ret' = ConvertToInr(arg[1].amount, arg[1].from_currency, arg[1].ro)
    /\ pc' = "convert_done"
    /\ UNCHANGED <<arg, input, tickers, executor, maxWorkers, futures,
                   finishOrder, preFinished, merged, results, side>>

NextConvert == CallConvert

SpecConvert == InitConvert /\ [][NextConvert]_vars

\* both users of the rate provider: convert_to_inr and fetch_single_ticker
InitCurrency == InitConvert \/ InitFetch

NextCurrency == CallConvert \/ CallFetch

SpecCurrency == InitCurrency /\ [][NextCurrency]_vars

\* C13: convert_to_inr never raises: when the rate lookup fails it returns the
\* amount it was given, when the lookup succeeds it returns amount * rate.
C13_ConvertNeverRaises ==
    pc = "convert_done" =>
        /\ ~ret.raised
        /\ arg[1].from_currency # "INR" =>
             ret.value = IF arg[1].ro.raises
                         THEN Some(arg[1].amount)
                         ELSE Some(arg[1].amount * arg[1].ro.rate)

C13_Witness ==
    /\ pc = "convert_done"
    /\ arg[1].from_currency = "USD"
    /\ arg[1].ro.raises
    /\ arg[1].amount = 3
    /\ ret.calls = <<"rate">>
    /\ ret.value = Some(3)

\* C14: with INR as the source currency convert_to_inr returns the amount
\* unchanged and never asks the rate provider; a fetch task whose symbol is
\* priced in INR asks for no rate and leaves every price as the provider
\* gave it.
C14_IdentityPath ==
    /\ (pc = "convert_done" /\ arg[1].from_currency = "INR") =>
          /\ ret.value = Some(arg[1].amount)
          /\ "rate" \notin Range(ret.calls)
    /\ (/\ pc = "fetch_done"
        /\ ret.value # None
        /\ HasNSSuffix(arg[1].ticker) \/ arg[1].oc.currency = "INR") =>
          LET e == ret.value[1]
              raw == arg[1].oc.hist
          IN  /\ "rate" \notin Range(ret.calls)
              /\ e.historical_data = CleanHistory(raw)
              /\ e.current_price = raw.col["Close"][raw.n]
              /\ e.start_price = raw.col["Close"][1]
              /\ e.high_52week = SeriesMax(raw.col["High"])
              /\ e.low_52week = SeriesMin(raw.col["Low"])

C14_Witness ==
    /\ pc = "fetch_done"
    /\ arg[1].ticker = UsTopStocks[1]
    /\ arg[1].oc.currency = "INR"
    /\ arg[1].oc.hist.n = 2
    /\ ret.value # None
    /\ ret.calls = <<"info", "history">>
    /\ ret.value[1].current_price = Some(BaseValue("Close", 2))

ScaleCell(c, rate) == IF c = None THEN None ELSE Some(c[1] * rate)

\* C15: for a symbol priced in another currency than INR every Open, High, Low
\* and Close value is multiplied by the one rate before the current price, the
\* price change, the high, the low and the expected return are computed; the
\* Volume is not converted; the statistics and the cleaned history are all in
\* INR.
C15_ConvertedBeforeStatistics ==
    (/\ pc = "fetch_done"
     /\ ret.value # None
     /\ ~HasNSSuffix(arg[1].ticker)
     /\ arg[1].oc.currency # "INR") =>
        LET e == ret.value[1]
            raw == arg[1].oc.hist
            rate == arg[1].oc.rate
            clean == CleanHistory(raw)
            current == ScaleCell(raw.col["Close"][raw.n], rate)
            start == ScaleCell(raw.col["Close"][1], rate)
        IN  /\ ret.calls = <<"info", "history", "rate">>
            /\ \A c \in PriceCols :
                 e.historical_data.col[c] = ScaleColumn(clean.col[c], rate)
            /\ e.historical_data.col["Volume"] = clean.col["Volume"]
            /\ e.current_price = current
            /\ e.start_price = start
            /\ e.price_change = PriceChange(current, start)
            /\ e.high_52week = ScaleCell(SeriesMax(raw.col["High"]), rate)
            /\ e.low_52week = ScaleCell(SeriesMin(raw.col["Low"]), rate)
            /\ e.avg_volume = SeriesMean(raw.col["Volume"])
            /\ e.expected_return = CalculateExpectedReturn(raw)
            /\ e.currency = "INR"

C15_Witness ==
    /\ pc = "fetch_done"
    /\ arg[1] = [ticker |-> UsTopStocks[1],
                 oc |-> [OkOutcome EXCEPT !.hist = GapHist(3, {2}, {}, {}),
                                          !.rate = 3]]
    /\ ret.value # None
    /\ ret.value[1].current_price = Some(3 * BaseValue("Close", 3))
    /\ ret.value[1].historical_data.col["Close"][2]
         = Some(3 * BaseValue("Close", 1))
    /\ ret.value[1].historical_data.col["Volume"][3]
         = Some(BaseValue("Volume", 3))

-----------------------------------------------------------------------------
(* The projection calculator (main.py) *)

\* the three scenarios: 0.08, 0.12 and 0.15 a year
ConservativeRate == Rat(8, 100)
ModerateRate == Rat(12, 100)
AggressiveRate == Rat(15, 100)

ScenarioRates == {ConservativeRate, ModerateRate, AggressiveRate}

\* mutant: the deposits compound once a year
FutureValueOverYears(monthly_amount, rate, years) ==
    LET monthly_rate == RatDiv(rate, Rat(12, 1))
    IN  RatDiv(RatMul(Rat(monthly_amount, 1),
                      RatSub(RatPow(RatAdd(Rat(1, 1), monthly_rate), years),
                             Rat(1, 1))),
               monthly_rate)

\* lines 582-586: calculate_future_value of the calculator
CalculateFutureValue(monthly_amount, rate, years) ==
    LET monthly_rate == RatDiv(rate, Rat(12, 1))
        n_months == years * 12
    IN  RatDiv(RatMul(Rat(monthly_amount, 1),
                      RatSub(RatPow(RatAdd(Rat(1, 1), monthly_rate), n_months),
                             Rat(1, 1))),
               monthly_rate)

\* lines 404-409: calculate_future_value of display_results
CalculateFutureValueInResults(monthly_amount, rate, years) ==
    LET monthly_rate == RatDiv(rate, Rat(12, 1))
        n_months == years * 12
    IN  RatDiv(RatMul(Rat(monthly_amount, 1),
                      RatSub(RatPow(RatAdd(Rat(1, 1), monthly_rate), n_months),
                             Rat(1, 1))),
               monthly_rate)

\* mutant: range(0, projection_years * 12)
MonthsWithoutLast(projection_years) ==
    [k \in 1..(projection_years * 12) |-> k - 1]

\* range(0, projection_years * 12 + 1)
Months(projection_years) == [k \in 1..(projection_years * 12 + 1) |-> k - 1]

\* [monthly_investment * i * (1 + rate/12)**i for i in months]
ProjectionColumn(monthly_investment, rate, months) ==
    [k \in 1..Len(months) |->
        RatMul(Rat(monthly_investment * months[k], 1),
               RatPow(RatAdd(Rat(1, 1), RatDiv(rate, Rat(12, 1))), months[k]))]

\* lines 592-599: the projections frame of the calculator
Projections(monthly_investment, projection_years) ==
    LET months == Months(projection_years)
    IN  [Month        |-> months,
         Conservative |-> ProjectionColumn(monthly_investment,
                                           ConservativeRate, months),
         Moderate     |-> ProjectionColumn(monthly_investment,
                                           ModerateRate, months),
         Aggressive   |-> ProjectionColumn(monthly_investment,
                                           AggressiveRate, months)]

\* lines 415-422: the projections frame of display_results
ProjectionsInResults(monthly_investment, projection_years) ==
    LET months == Months(projection_years)
    IN  [Month        |-> months,
         Conservative |-> ProjectionColumn(monthly_investment,
                                           ConservativeRate, months),
         Moderate     |-> ProjectionColumn(monthly_investment,
                                           ModerateRate, months),
         Aggressive   |-> ProjectionColumn(monthly_investment,
                                           AggressiveRate, months)]

\* The inputs: the number_input gives 1000, 2000, ... rupees a month, the
\* selectbox a number of years (the first two of its options)
MaxMonthly == 17
MonthlyStep == 1000
YearOptions == {1, 3}

ProjectionInputs ==
    [monthly_investment : { MonthlyStep * k : k \in 1..MaxMonthly },
     projection_years : YearOptions]

InitProjection ==
    /\ pc = "projection_call"
    /\ arg \in { Some(a) : a \in ProjectionInputs }
    /\ ret = None
    /\ input = ListInput(<< >>)
    /\ tickers = << >>
    /\ executor = "none"
    /\ maxWorkers = 0
    /\ futures = << >>
    /\ finishOrder = << >>
    /\ preFinished = {}
    /\ merged = {}
    /\ results = EmptyDict
    /\ side = IdleSide

\* lines 576-599: the calculator at the foot of the page
Calculator ==
    /\ pc = "projection_call"
    /\ arg[1].monthly_investment > 0 /\ arg[1].projection_years > 0
    /\ LET m == arg[1].monthly_investment
           y == arg[1].projection_years
       IN  ret' = [conservative_fv |-> CalculateFutureValue(m, ConservativeRate, y),
                   moderate_fv     |-> CalculateFutureValue(m, ModerateRate, y),
                   aggressive_fv   |-> CalculateFutureValue(m, AggressiveRate, y),
                   projections     |-> Projections(m, y)]
    /\ pc' = "calculator_done"
    /\ UNCHANGED <<arg, input, tickers, executor, maxWorkers, futures,
                   finishOrder, preFinished, merged, results, side>>

\* lines 399-422: the projection part of display_results
DisplayResults ==
    /\ pc = "projection_call"
    /\ LET m == arg[1].monthly_investment
           y == arg[1].projection_years
       IN  ret' = [conservative_fv |->
                       CalculateFutureValueInResults(m, ConservativeRate, y),
                   moderate_fv     |->
                       CalculateFutureValueInResults(m, ModerateRate, y),
                   aggressive_fv   |->
                       CalculateFutureValueInResults(m, AggressiveRate, y),
                   projections     |-> ProjectionsInResults(m, y)]
    /\ pc' = "results_done"
    /\ UNCHANGED <<arg, input, tickers, executor, maxWorkers, futures,
                   finishOrder, preFinished, merged, results, side>>

NextProjection == Calculator \/ DisplayResults

SpecProjection == InitProjection /\ [][NextProjection]_vars

\* 1 + rate / 12
MonthlyGrowth(rate) == RatAdd(Rat(1, 1), RatDiv(rate, Rat(12, 1)))

\* monthly_amount * i * (1 + rate/12)^i
MonthValue(monthly_amount, rate, i) ==
    RatMul(Rat(monthly_amount * i, 1), RatPow(MonthlyGrowth(rate), i))

ProjectionDone == pc \in {"calculator_done", "results_done"}

\* C18: a projection holds years * 12 + 1 points per scenario, for the months
\* 0, 1, ..., years * 12 in ascending order; the three scenarios share the one
\* month axis; the value at month i is monthly_amount * i * (1 + rate/12)^i,
\* so the value at month 0 is 0.
C18_ProjectionSeries ==
    ProjectionDone =>
        LET p == ret.projections
            m == arg[1].monthly_investment
            n == arg[1].projection_years * 12
        IN  /\ \A c \in DOMAIN p : Len(p[c]) = n + 1
            /\ \A k \in 1..Len(p.Month) : p.Month[k] = k - 1
            /\ \A k \in 1..Len(p.Month) :
                 /\ p.Conservative[k]
                      = MonthValue(m, ConservativeRate, p.Month[k])
                 /\ p.Moderate[k] = MonthValue(m, ModerateRate, p.Month[k])
                 /\ p.Aggressive[k]
                      = MonthValue(m, AggressiveRate, p.Month[k])
            /\ RatIsZero(p.Conservative[1])
            /\ RatIsZero(p.Moderate[1])
            /\ RatIsZero(p.Aggressive[1])

C18_Witness ==
    /\ pc = "calculator_done"
    /\ arg[1] = [monthly_investment |-> 5000, projection_years |-> 3]
    /\ Len(ret.projections.Month) = 37
    /\ ret.projections.Month[37] = 36
    /\ ~RatIsZero(ret.projections.Moderate[37])
    /\ RatIsZero(ret.projections.Moderate[1])

\* the sum over k = lo..hi of a^k * b^(n-1-k)
RECURSIVE TermSum(_, _, _, _, _)
TermSum(a, b, n, lo, hi) ==
    IF lo = hi THEN BigMul(BigPow(a, lo), BigPow(b, n - 1 - lo))
    ELSE LET mid == (lo + hi) \div 2
         IN  BigAdd(TermSum(a, b, n, lo, mid), TermSum(a, b, n, mid + 1, hi))

\* the sum over k = 0..n-1 of monthly_amount * (1 + rate/12)^k, over the common
\* denominator den^(n-1) of its terms
SumOfDeposits(monthly_amount, rate, n) ==
    LET q == MonthlyGrowth(rate)
    IN  [num |-> BigMul(BigOf(monthly_amount),
                        TermSum(q.num, q.den, n, 0, n - 1)),
         den |-> BigPow(q.den, n - 1)]

\* C19: for each of the three rates calculate_future_value is the value of an
\* ordinary annuity, the sum over k = 0..12*years-1 of
\* monthly_amount * (1 + rate/12)^k, and the two definitions of the function
\* in main.py give the same value.
C19_OrdinaryAnnuity ==
    ProjectionDone =>
        LET m == arg[1].monthly_investment
            y == arg[1].projection_years
            fv == [r \in ScenarioRates |->
                     IF r = ConservativeRate THEN ret.conservative_fv
                     ELSE IF r = ModerateRate THEN ret.moderate_fv
                     ELSE ret.aggressive_fv]
        IN  \A r \in ScenarioRates :
                /\ RatEq(fv[r], SumOfDeposits(m, r, 12 * y))
                /\ fv[r] = CalculateFutureValue(m, r, y)
                /\ fv[r] = CalculateFutureValueInResults(m, r, y)

C19_Witness ==
    /\ pc = "results_done"
    /\ arg[1] = [monthly_investment |-> 5000, projection_years |-> 1]
    /\ RatEq(ret.moderate_fv, SumOfDeposits(5000, ModerateRate, 12))
    /\ ~RatIsZero(ret.moderate_fv)

-----------------------------------------------------------------------------
(* llm_service *)

\* lines 16-32: what importing the module leaves in genai and
\* GENAI_CONFIGURED; env says whether the import of the client succeeds,
\* whether GOOGLE_API_KEY is set and whether genai.configure succeeds
ConfigureModule(env) ==
    [genai |-> IF env.import_ok THEN "module" ELSE "none",
     GENAI_CONFIGURED |-> env.import_ok /\ env.api_key /\ env.configure_ok]

\* A text is a record: the narrative of the fallback with the values it
\* shows, the fixed text of the fallback's except clause, or the text of the
\* remote model.
ErrorText ==
    [kind |-> "error", investment_amount |-> 0, horizon |-> 0,
     strategy |-> "", future |-> << >>]

RemoteText ==
    [kind |-> "remote", investment_amount |-> 0, horizon |-> 0,
     strategy |-> "", future |-> << >>]

\* lines 69-92: the strategy of the risk level
Strategy(risk_level) ==
    IF risk_level = "Low Risk" THEN "Conservative"
    ELSE IF risk_level = "Medium Risk" THEN "Balanced"
    ELSE "Growth"

\* lines 111-113: monthly_investment * 12 * ((1 + rate) ** years)
FallbackFuture(monthly_investment, rate, years) ==
    RatMul(Rat(monthly_investment * 12, 1),
           RatPow(RatAdd(Rat(1, 1), rate), years))

\* lines 38-129: the body of the try block of _local_fallback_response; the
\* inputs are well formed when every expression of the body can be evaluated
\* (user_inputs is a mapping, the amount and the horizon are numbers, the two
\* contexts are strings)
FallbackBody(u) ==
    IF ~u.wellformed THEN [raised |-> TRUE, text |-> ErrorText]
    ELSE [raised |-> FALSE,
          text |-> [kind |-> "narrative",
                    investment_amount |-> u.investment_amount,
                    horizon |-> u.horizon,
                    strategy |-> Strategy(u.risk),
                    future |-> <<FallbackFuture(u.investment_amount,
                                                ConservativeRate, u.horizon),
                                 FallbackFuture(u.investment_amount,
                                                ModerateRate, u.horizon),
                                 FallbackFuture(u.investment_amount,
                                                AggressiveRate, u.horizon)>>]]

\* lines 35-132: try: ... except Exception: return "Fallback: ..."
LocalFallbackResponse(u) ==
    LET b == FallbackBody(u) IN IF b.raised THEN ErrorText ELSE b.text

\* lines 144-176: the body of the try block of get_llm_response; remote says
\* how the client answers
LlmBody(remote, u) ==
    IF remote = "model_raises"
    THEN [raised |-> TRUE, text |-> ErrorText, calls |-> <<"GenerativeModel">>]
    ELSE IF ~u.wellformed          \* the prompt cannot be formatted
    THEN [raised |-> TRUE, text |-> ErrorText, calls |-> <<"GenerativeModel">>]
    ELSE IF remote \in {"generate_raises", "text_raises"}
    THEN [raised |-> TRUE, text |-> ErrorText,
          calls |-> <<"GenerativeModel", "generate_content">>]
    ELSE [raised |-> FALSE, text |-> RemoteText,
          calls |-> <<"GenerativeModel", "generate_content">>]

\* mutant: no except clause around the remote call
LlmWithoutCatch(mod, remote, u) ==
    IF ~mod.GENAI_CONFIGURED \/ mod.genai = "none"
    THEN [raised |-> FALSE, text |-> LocalFallbackResponse(u), calls |-> << >>]
    ELSE LlmBody(remote, u)

\* lines 135-180: get_llm_response
GetLlmResponse(mod, remote, u) ==
    IF ~mod.GENAI_CONFIGURED \/ mod.genai = "none"
    THEN [raised |-> FALSE, text |-> LocalFallbackResponse(u), calls |-> << >>]
    ELSE LET b == LlmBody(remote, u)
         IN  IF b.raised
             THEN [raised |-> FALSE, text |-> LocalFallbackResponse(u),
                   calls |-> b.calls]
             ELSE b

\* The inputs: the sidebar gives 0, 1000, 2000, ... rupees a month, a horizon
\* of 1 year or more and one of three risk levels
MaxHorizon == 3
MaxSteps == 2

RiskLevels == {"Low Risk", "Medium Risk", "High Risk"}

LlmInputs ==
    [env : [import_ok : BOOLEAN, api_key : BOOLEAN, configure_ok : BOOLEAN],
     remote : {"ok", "model_raises", "generate_raises", "text_raises"},
     user_inputs : [wellformed : BOOLEAN,
                    investment_amount : { MonthlyStep * k : k \in 0..MaxSteps },
                    horizon : 1..MaxHorizon,
                    risk : RiskLevels]]

InitLlm ==
    /\ pc = "llm_call"
    /\ arg \in { Some(a) : a \in LlmInputs }
    /\ ret = None
    /\ input = ListInput(<< >>)
    /\ tickers = << >>
    /\ executor = "none"
    /\ maxWorkers = 0
    /\ futures = << >>
    /\ finishOrder = << >>
    /\ preFinished = {}
    /\ merged = {}
    /\ results = EmptyDict
    /\ side = IdleSide

CallLlm ==
    /\ pc = "llm_call"
    /\ ret' = GetLlmResponse(ConfigureModule(arg[1].env), arg[1].remote,
                             arg[1].user_inputs)
    /\ pc' = "llm_done"
    /\ UNCHANGED <<arg, input, tickers, executor, maxWorkers, futures,
                   finishOrder, preFinished, merged, results, side>>

NextLlm == CallLlm

SpecLlm == InitLlm /\ [][NextLlm]_vars

Configured(env) == env.import_ok /\ env.api_key /\ env.configure_ok

\* the text is the fallback's, built from the inputs of the call
IsFallbackOf(text, u) ==
    IF u.wellformed
    THEN /\ text.kind = "narrative"
         /\ text.investment_amount = u.investment_amount
         /\ text.horizon = u.horizon
         /\ text.strategy = Strategy(u.risk)
         /\ Len(text.future) = 3
    ELSE text.kind = "error"

\* C16: get_llm_response never raises and always returns a text; when the
\* client is not configured (no credential, failed import or failed
\* configuration) the text is the local fallback's and no remote call is
\* made; when the remote call raises the text is the local fallback's, built
\* from the inputs of the call.
C16_LlmNeverRaises ==
    pc = "llm_done" =>
        /\ ~ret.raised
        /\ ret.text.kind \in {"narrative", "error", "remote"}
        /\ ~Configured(arg[1].env) =>
             /\ ret.calls = << >>
             /\ IsFallbackOf(ret.text, arg[1].user_inputs)
        /\ (Configured(arg[1].env) /\ arg[1].remote # "ok") =>
             IsFallbackOf(ret.text, arg[1].user_inputs)

C16_Witness ==
    /\ pc = "llm_done"
    /\ Configured(arg[1].env)
    /\ arg[1].remote = "generate_raises"
    /\ arg[1].user_inputs.wellformed
    /\ arg[1].user_inputs.investment_amount = 2000
    /\ ret.calls = <<"GenerativeModel", "generate_content">>
    /\ ret.text.kind = "narrative"
    /\ ret.text.investment_amount = 2000

\* C17: each of the three future figures of the fallback narrative equals
\* calculate_future_value(monthly_amount, rate, years) for the amount and the
\* horizon of the call.
C17_FallbackUsesFutureValue ==
    (pc = "llm_done" /\ ret.text.kind = "narrative") =>
        LET u == arg[1].user_inputs
            rates == <<ConservativeRate, ModerateRate, AggressiveRate>>
        IN  \A i \in 1..3 :
                RatEq(ret.text.future[i],
                      CalculateFutureValue(u.investment_amount, rates[i],
                                           u.horizon))

-----------------------------------------------------------------------------
(* news_service *)

\* The result of get_financial_news is a list of articles or a mapping with
\* the key 'error': [kind |-> "list" or "dict", items |-> the articles].

\* lines 20-56: the built-in articles (their titles)
FallbackNews ==
    [kind |-> "list",
     items |-> <<[title |-> "Indian Stock Market Reaches New Heights",
                  description |-> "fallback"],
                 [title |-> "Tech Stocks Lead Global Market Rally",
                  description |-> "fallback"],
                 [title |-> "RBI Maintains Policy Stance",
                  description |-> "fallback"],
                 [title |-> "Cryptocurrency Market Shows Recovery",
                  description |-> "fallback"],
                 [title |-> "Oil Prices Impact Global Markets",
                  description |-> "fallback"]>>]

ErrorDict == [kind |-> "dict", items |-> << >>]

\* line 118: stop after five good articles
NewsCap == 5

\* lines 92-119: the loop over the articles of the response; a title or a
\* description that is null (None) makes .strip() raise
FilterArticles(articles) ==
    LET step[i \in 0..Len(articles)] ==
            IF i = 0 THEN [top |-> << >>, raised |-> FALSE]
            ELSE LET prev == step[i - 1]
                     a == articles[i]
                 IN  IF prev.raised \/ Len(prev.top) >= NewsCap THEN prev
                     ELSE IF a.title = "null" \/ a.description = "null"
                     THEN [prev EXCEPT !.raised = TRUE]
                     ELSE IF a.title = "" \/ a.description = "" THEN prev
                     ELSE IF \E k \in 1..Len(prev.top) :
                                prev.top[k].title = a.title
                     THEN prev
                     ELSE [prev EXCEPT !.top = Append(prev.top, a)]
    IN  step[Len(articles)]

\* lines 8-128: get_financial_news; api says how the request ends:
\*   request_raises  requests.get raises a RequestException
\*   bad_status      raise_for_status raises an HTTPError
\*   not_ok          the JSON has a status other than 'ok'
\*   ok              the JSON has status 'ok' and the articles
GetFinancialNews(api_key, api) ==
    IF ~api_key THEN FallbackNews                            \* lines 58-61
    ELSE IF api.kind \in {"request_raises", "bad_status"}
    THEN ErrorDict                                           \* lines 123-125
    ELSE IF api.kind = "not_ok" THEN ErrorDict               \* lines 85-87
    ELSE LET f == FilterArticles(api.articles)
         IN  IF f.raised THEN ErrorDict                      \* lines 126-128
             ELSE [kind |-> "list", items |-> f.top]

MaxArticles == 2

ApiArticles ==
    [title : {"", "A", "B"}, description : {"null", "", "d"}]

ArticleLists ==
    UNION { [1..n -> ApiArticles] : n \in 0..MaxArticles }

NewsInputs ==
    { [api_key |-> k, api |-> [kind |-> f, articles |-> << >>]] :
        k \in BOOLEAN, f \in {"request_raises", "bad_status", "not_ok"} }
    \cup
    { [api_key |-> k, api |-> [kind |-> "ok", articles |-> l]] :
        k \in BOOLEAN, l \in ArticleLists }

InitNews ==
    /\ pc = "news_call"
    /\ arg \in { Some(a) : a \in NewsInputs }
    /\ ret = None
    /\ input = ListInput(<< >>)
    /\ tickers = << >>
    /\ executor = "none"
    /\ maxWorkers = 0
    /\ futures = << >>
    /\ finishOrder = << >>
    /\ preFinished = {}
    /\ merged = {}
    /\ results = EmptyDict
    /\ side = IdleSide

CallNews ==
    /\ pc = "news_call"
    /\ ret' = GetFinancialNews(arg[1].api_key, arg[1].api)
    /\ pc' = "news_done"
    /\ UNCHANGED <<arg, input, tickers, executor, maxWorkers, futures,
                   finishOrder, preFinished, merged, results, side>>

NextNews == CallNews

SpecNews == InitNews /\ [][NextNews]_vars

\* C20: get_financial_news returns the built-in articles whenever the news API
\* fails (the request raises, the HTTP status is bad, or the status of the
\* response is not 'ok'), as it does when the API key is missing; its result
\* is always a list.
C20_NewsFallsBack ==
    pc = "news_done" =>
        /\ ret.kind = "list"
        /\ (\/ ~arg[1].api_key
            \/ arg[1].api.kind \in {"request_raises", "bad_status", "not_ok"})
             => ret = FallbackNews

-----------------------------------------------------------------------------
(* Properties of the aggregator, continued *)

\* the tasks whose future differs between the two states of a step
ChangedTasks ==
    { i \in 1..Len(futures) : i <= Len(futures') /\ futures'[i] # futures[i] }

\* C21: the result mapping is written only by the calling thread, in its
\* collecting loop, for one completed task at a time; a step of a worker
\* changes the future of its own task only and leaves the mapping and every
\* other future alone.
C21_OnlyCallerWritesResults ==
    [][/\ results' # results =>
            /\ pc = "collect" /\ pc' = "collect"
            /\ futures' = futures
            /\ \E i \in Finished \ merged :
                  /\ merged' = merged \cup {i}
                  /\ results' = MergeInto(results, futures[i])
       /\ (futures' # futures /\ Len(futures') = Len(futures)) =>
            /\ results' = results
            /\ merged' = merged
            /\ Cardinality(ChangedTasks) = 1]_vars

C21_Witness ==
    /\ pc = "collect"
    /\ Len(futures) = 2
    /\ Cardinality(merged) = 1
    /\ Cardinality(DOMAIN results) = 1
    /\ Running # {}


\* the fetched history fails the validation of lines 99-107
InvalidHistory(hist) ==
    DfEmpty(hist) \/ ~(RequiredCols \subseteq DOMAIN hist.col)

\* the outcomes that differ from oc only in what happens after the validation
LaterOutcomes(oc) ==
    { [oc EXCEPT !.rate_raises = r, !.derive_raises = d] : r, d \in BOOLEAN }

\* C22: when the fetched history is empty or lacks a required column, the
\* task ends with no result straight after the history request: its calls are
\* the metadata and the history request only (no rate lookup), nothing is
\* raised inside its body, and a failure of the rate lookup or of the
\* derivation could not have changed anything, since neither is reached.
C22_ValidationFirst ==
    \A i \in Finished :
        LET oc == futures[i].oc[1]
        IN  (~oc.info_raises /\ ~oc.hist_raises /\ InvalidHistory(oc.hist)) =>
                /\ futures[i].result = None
                /\ futures[i].calls = <<"info", "history">>
                /\ \A o \in LaterOutcomes(oc) :
                      FetchBody(futures[i].ticker, o) =
                          [raised |-> FALSE, value |-> None,
                           calls |-> <<"info", "history">>]

C22_Witness ==
    \E i, j \in Finished :
        /\ futures[i].oc[1].hist = EmptyHist
        /\ futures[j].oc[1].hist = NoVolumeHist
        /\ NativeCurrency(futures[i].ticker, futures[i].oc[1]) # "INR"
        /\ futures[i].result = None /\ futures[j].result = None

-----------------------------------------------------------------------------
(* fetch_single_ticker on histories long enough for a return estimate *)

\* a history whose Close column is s and whose other columns have no gap
LongHist(s) ==
    [n |-> Len(s),
     col |-> [c \in RequiredCols |->
                IF c = "Close" THEN s
                ELSE [i \in 1..Len(s) |-> Some(BaseValue(c, i))]]]

\* 60 bars rising linearly from 100 to 160 in every price column: bar i is
\* 100 + 60 * (i - 1) / 59, kept in units of 1/59
LinearHist ==
    [n |-> 60,
     col |-> [c \in RequiredCols |->
                [i \in 1..60 |->
                    IF c = "Volume" THEN Some(BaseValue(c, i))
                    ELSE Some(100 * 59 + 60 * (i - 1))]]]

\* close series around the 30-observation threshold, with up to two bars
\* missing, and the linear series; the rate is a power of two
EntryInputs ==
    { [ticker |-> t, oc |-> [OkOutcome EXCEPT !.hist = LinearHist,
                                              !.currency = c]] :
        t \in SmallSymbols, c \in Currencies }
    \cup
    { [ticker |-> t,
       oc |-> [OkOutcome EXCEPT
                 !.hist = LongHist(CloseSeries(len, lv[1], lv[2], len \div 2,
                                               p1, k1, p2, k2)),
                 !.currency = c]] :
        t \in SmallSymbols, c \in Currencies,
        len \in (MinObservations - 1)..MaxBars,
        lv \in { <<2, 2>>, <<1, 2>>, <<2, 1>>, <<1, 4>> },
        p1 \in {1, 16}, k1 \in {"none", "nan"},
        p2 \in {2, 17, 29}, k2 \in {"none", "nan"} }

InitEntry ==
    /\ pc = "fetch_call"
    /\ arg \in { Some(a) : a \in EntryInputs }
    /\ ret = None
    /\ input = ListInput(<< >>)
    /\ tickers = << >>
    /\ executor = "none"
    /\ maxWorkers = 0
    /\ futures = << >>
    /\ finishOrder = << >>
    /\ preFinished = {}
    /\ merged = {}
    /\ results = EmptyDict
    /\ side = IdleSide

SpecEntry == InitEntry /\ [][NextFetch]_vars

\* the task of the fetch specifications has returned an entry
EntryReturned == pc = "fetch_done" /\ ret.value # None

\* C23: the expected_return of a returned entry is calculate_expected_return
\* of the entry's own cleaned history, the value the expected-returns chart
\* recomputes from historical_data (already for histories whose first and
\* last close are present).
C23_ReturnOfCleanedHistory ==
    (/\ EntryReturned
     /\ arg[1].oc.hist.col["Close"][1] # None
     /\ arg[1].oc.hist.col["Close"][arg[1].oc.hist.n] # None) =>
        ret.value[1].expected_return =
            CalculateExpectedReturn(ret.value[1].historical_data)


\* C24: the avg_volume of a returned entry is the arithmetic mean of the
\* Volume column of the entry's cleaned history, the filled bars counted like
\* any other (the fetched Volume column has some present value).
C24_MeanOfCleanedVolume ==
    (/\ EntryReturned
     /\ \E i \in 1..arg[1].oc.hist.n : arg[1].oc.hist.col["Volume"][i] # None) =>
        LET e == ret.value[1]
            cleaned == SeriesMean(e.historical_data.col["Volume"])
        IN  /\ e.avg_volume # None
            /\ cleaned # None
            /\ RatioEq(e.avg_volume[1], cleaned[1])


\* no cell of the history is missing
GapFree(hist) ==
    \A c \in DOMAIN hist.col : \A i \in 1..hist.n : hist.col[c][i] # None

\* the history the metrics are read from: the fetched one, in rupees
FetchedInRupees ==
    IF NativeCurrency(arg[1].ticker, arg[1].oc) # "INR"
    THEN Converted(arg[1].oc.hist, arg[1].oc.rate)
    ELSE arg[1].oc.hist

\* C25: for a gap-free history, high_52week is the greatest High and
\* low_52week the least Low of the whole window, and price_change is
\* (last close - first close) / first close * 100; for the 60 bars rising
\* linearly from 100 to 160 (no conversion) this is 60, 160 and 100.
C25_MetricsOfGapFreeHistory ==
    (EntryReturned /\ GapFree(arg[1].oc.hist)) =>
        LET e == ret.value[1]
            h == FetchedInRupees
            first == h.col["Close"][1][1]
            last == h.col["Close"][h.n][1]
        IN  /\ e.high_52week # None
            /\ \E i \in 1..h.n : h.col["High"][i] = e.high_52week
            /\ \A i \in 1..h.n : h.col["High"][i][1] <= e.high_52week[1]
            /\ e.low_52week # None
            /\ \E i \in 1..h.n : h.col["Low"][i] = e.low_52week
            /\ \A i \in 1..h.n : e.low_52week[1] <= h.col["Low"][i][1]
            /\ e.price_change # None
            /\ Reduce(e.price_change[1].num, e.price_change[1].den)
                 = Reduce((last - first) * 100, first)
            /\ (h = LinearHist) =>
                  /\ RatioEq(e.price_change[1], Ratio(60, 1))
                  /\ e.high_52week = Some(160 * 59)
                  /\ e.low_52week = Some(100 * 59)

C25_Witness ==
    /\ EntryReturned
    /\ arg[1].oc.hist = LinearHist
    /\ FetchedInRupees = LinearHist
    /\ ret.value[1].high_52week = Some(160 * 59)


\* C26: a call with one symbol given as a string runs as the call with the
\* one-element list of that symbol: the same ticker list and pool size, at
\* most one task, dispatched for the whole string, and the mapping returned
\* is the one merged from that task alone.
C26_StringAsOneElementList ==
    (input.kind = "str" /\ pc # "idle") =>
        /\ tickers = Normalise(ListInput(<<input.sym>>))
        /\ tickers = <<input.sym>>
        /\ maxWorkers = WorkerCount(<<input.sym>>)
        /\ Len(futures) <= 1
        /\ \A i \in 1..Len(futures) : futures[i].ticker = input.sym
        /\ pc = "returned" =>
              /\ Len(futures) = 1
              /\ results = MergeInto(EmptyDict, futures[1])

C26_Witness ==
    /\ input.kind = "str"
    /\ pc = "returned"
    /\ DOMAIN results = {input.sym}
    /\ Len(input.sym) > 1


\* the tasks that are dispatched and not finished
Unfinished == Queued \cup Running

\* C27: the call has returned only when every ticker was dispatched and every
\* dispatched task has finished and was merged; while one task is queued or
\* in flight the call has not returned, whatever is merged already.
C27_ReturnsAfterEveryTask ==
    /\ pc = "returned" =>
          /\ Len(futures) = Len(tickers)
          /\ Unfinished = {}
          /\ merged = 1..Len(futures)
    /\ Unfinished # {} => pc \in {"submit", "collect"}

\* one fetch is still in flight, its sibling is merged, the call waits
C27_Witness ==
    /\ pc = "collect"
    /\ Running = {1}
    /\ merged = {2}
    /\ DOMAIN results = {futures[2].ticker}
    /\ ~ENABLED Return

-----------------------------------------------------------------------------
(* The pool specification under fair scheduling *)

\* The calling thread keeps running (Call, Submit, BeginCollect, Merge,
\* Return), a free worker takes the next queued task (StartTask), and every
\* fetch that was started comes to its end (FinishTask).
PoolFairness ==
    /\ WF_vars(Call)
    /\ WF_vars(Submit)
    /\ WF_vars(BeginCollect)
    /\ WF_vars(\E i \in 1..Len(futures) : Merge(i))
    /\ WF_vars(Return)
    /\ WF_vars(StartTask)
    /\ \A i \in 1..(PoolCap + 1) :
          WF_vars(\E oc \in Outcomes : FinishTask(i, oc))

\* fewer symbols than the pool's cap, and one more than the cap
FairInputs ==
    { ListInput(SubSeq(UsTopStocks, 1, n)) : n \in {2, PoolCap + 1} }

InitFairPool == InitAgg(FairInputs)

FairSpecPool == InitFairPool /\ [][NextPool]_vars /\ PoolFairness

\* every ticker of the list was dispatched, started and finished
EveryTaskFinished ==
    /\ Len(futures) = Len(tickers)
    /\ \A i \in 1..Len(futures) :
          futures[i].state = "finished" /\ TaskDone(i)

\* C28: when every started fetch finishes and the workers are scheduled
\* fairly, the call eventually returns, and by then every submitted task has
\* been started and finished, also when there are more symbols than workers.
C28_EventuallyReturns ==
    <>(pc = "returned" /\ EveryTaskFinished)

\* more symbols than workers: the call has returned and the task that had to
\* wait for a worker has run
C28_Witness ==
    /\ pc = "returned"
    /\ Len(tickers) > maxWorkers
    /\ EveryTaskFinished

-----------------------------------------------------------------------------
(* The aggregator when two fetches of one symbol may differ *)

\* The provider quotes a rate that moves between two lookups, or fails.
MovingOutcomes ==
    { OkOutcome,
      [OkOutcome EXCEPT !.rate = 3],
      [OkOutcome EXCEPT !.hist_raises = TRUE] }

InitMoving == InitAgg({ i \in Inputs : i.kind = "list" })

NextMoving ==
    \/ Call
    \/ Submit
    \/ StartTask
    \/ \E i \in 1..Len(futures) : \E oc \in MovingOutcomes : FinishTask(i, oc)
    \/ BeginCollect
    \/ \E i \in 1..Len(futures) : Merge(i)
    \/ Return

SpecMoving == InitMoving /\ [][NextMoving]_vars

\* the task dispatched for symbol t, when t is listed once
TaskOf(t) == CHOOSE i \in 1..Len(futures) : futures[i].ticker = t

\* the mapping the outcomes of the symbols determine: an entry for each symbol
\* whose task succeeded, derived from the outcome of that symbol
MappingOfOutcomes ==
    [t \in { futures[i].ticker : i \in { j \in 1..Len(futures) : TaskSucceeded(j) } }
        |-> FetchSingleTicker(t, futures[TaskOf(t)].oc[1]).value[1]]

\* one symbol listed twice, both fetches successful with different records
TwiceDifferent ==
    /\ Len(tickers) = 2
    /\ tickers[1] = tickers[2]
    /\ Finished = {1, 2}
    /\ futures[1].result # None
    /\ futures[2].result # None
    /\ futures[1].result # futures[2].result

-----------------------------------------------------------------------------
(* finance_service_new: the second variant of the aggregator *)

OldVars == <<pc, input, tickers, executor, maxWorkers, futures, finishOrder,
             preFinished, merged, results, arg, ret>>

\* A float of the new calculate_expected_return: a quotient, or nan / +-inf
Fin(r) == [tag |-> "fin", value |-> r]

NotFin(tag) == [tag |-> tag, value |-> Ratio(0, 1)]

\* one term of pct_change: (cur - prev) / prev
PctKind(prev, cur) ==
    IF prev # 0 THEN "fin"
    ELSE IF cur > 0 THEN "pinf" ELSE IF cur < 0 THEN "ninf" ELSE "nan"

PctValue(prev, cur) ==
    IF prev > 0 THEN Reduce(cur - prev, prev) ELSE Reduce(prev - cur, 0 - prev)

PlusRatio(r, x) == Reduce(r.num * x.den + x.num * r.den, r.den * x.den)

\* the sum of the finite terms
SumPct(terms) ==
    LET f[i \in 0..Len(terms)] ==
            IF i = 0 THEN Ratio(0, 1)
            ELSE PlusRatio(f[i - 1], PctValue(terms[i][1], terms[i][2]))
    IN  f[Len(terms)]

\* finance_service_new.py lines 7-15: Close.pct_change() pads the missing bars
\* with the last present close; dropna() removes the leading NaN and 0/0
NewCalculateExpectedReturn(data) ==
    IF DfEmpty(data) THEN Fin(Ratio(0, 1))
    ELSE IF "Close" \notin DOMAIN data.col THEN Fin(Ratio(0, 1))
    ELSE LET padded == FFill(data.col["Close"])
             pairs == [i \in 1..(Len(padded) - 1) |-> <<padded[i], padded[i + 1]>>]
             present == SelectSeq(pairs, LAMBDA p : p[1] # None)
             terms == [i \in 1..Len(present) |->
                          <<present[i][1][1], present[i][2][1]>>]
             returns == SelectSeq(terms, LAMBDA p : PctKind(p[1], p[2]) # "nan")
             kinds == { PctKind(returns[i][1], returns[i][2]) :
                          i \in 1..Len(returns) }
         IN  IF Len(returns) = 0 THEN NotFin("nan")
             ELSE IF "pinf" \in kinds /\ "ninf" \in kinds THEN NotFin("nan")
             ELSE IF "pinf" \in kinds THEN NotFin("pinf")
             ELSE IF "ninf" \in kinds THEN NotFin("ninf")
             ELSE Fin(Reduce(SumPct(returns).num * TradingDays,
                             SumPct(returns).den * Len(returns)))

\* lines 50-72: the record built from the history as fetched
NewDerive(ticker, hist) ==
    [ticker          |-> ticker,
     current_price   |-> hist.col["Close"][hist.n],
     price_change    |-> PriceChange(hist.col["Close"][hist.n],
                                     hist.col["Close"][1]),
     high_52week     |-> SeriesMax(hist.col["High"]),
     low_52week      |-> SeriesMin(hist.col["Low"]),
     avg_volume      |-> SeriesMean(hist.col["Volume"]),
     expected_return |-> NewCalculateExpectedReturn(hist),
     historical_data |-> CleanHistory(hist)]

\* mutant: the second variant reads the metadata as the first does
NewFetchReadsInfo(ticker, oc) ==
    IF oc.info_raises
    THEN [raised |-> TRUE, value |-> None, calls |-> <<"info">>]
    ELSE IF oc.hist_raises \/ oc.derive_raises
    THEN [raised |-> TRUE, value |-> None, calls |-> <<"info", "history">>]
    ELSE IF InvalidHistory(oc.hist)
    THEN [raised |-> FALSE, value |-> None, calls |-> <<"info", "history">>]
    ELSE [raised |-> FALSE, value |-> Some(NewDerive(ticker, oc.hist)),
          calls |-> <<"info", "history">>]

\* lines 35-74, the body of the try block: no metadata, no rate
NewFetchBody(ticker, oc) ==
    IF oc.hist_raises
    THEN [raised |-> TRUE, value |-> None, calls |-> <<"history">>]
    ELSE IF DfEmpty(oc.hist)
    THEN [raised |-> FALSE, value |-> None, calls |-> <<"history">>]
    ELSE IF ~(RequiredCols \subseteq DOMAIN oc.hist.col)
    THEN [raised |-> FALSE, value |-> None, calls |-> <<"history">>]
    ELSE IF oc.derive_raises
    THEN [raised |-> TRUE, value |-> None, calls |-> <<"history">>]
    ELSE [raised |-> FALSE, value |-> Some(NewDerive(ticker, oc.hist)),
          calls |-> <<"history">>]

\* lines 76-78: except Exception: return None
NewFetchSingleTicker(ticker, oc) ==
    LET b == NewFetchBody(ticker, oc)
    IN  IF b.raised
        THEN [raised |-> FALSE, value |-> None, calls |-> b.calls]
        ELSE b

SideIn(state) ==
    { i \in 1..Len(side.futures) : side.futures[i].state = state }

\* lines 28-32 and the creation of the executor (line 81)
NewCall ==
    /\ side.pc = "idle"
    /\ LET t == Normalise(input)
       IN  side' = IF IsEmptyInput(t)
                   THEN [side EXCEPT !.pc = "returned", !.tickers = t]
                   ELSE IF WorkerCount(t) <= 0
                   THEN [side EXCEPT !.pc = "raised", !.tickers = t]
                   ELSE [side EXCEPT !.pc = "submit", !.tickers = t,
                                     !.maxWorkers = WorkerCount(t)]
    /\ UNCHANGED OldVars

\* line 82: the next executor.submit of the dict comprehension
NewSubmit ==
    /\ side.pc = "submit"
    /\ Len(side.futures) < Len(side.tickers)
    /\ side' = [side EXCEPT !.futures =
                  Append(@, [ticker |-> side.tickers[Len(side.futures) + 1],
                             state |-> "queued", raised |-> FALSE,
                             result |-> None])]
    /\ UNCHANGED OldVars

\* a free worker takes the oldest queued task
NewStartTask ==
    /\ side.pc \in {"submit", "collect"}
    /\ SideIn("queued") # {}
    /\ Cardinality(SideIn("running")) < side.maxWorkers
    /\ LET i == CHOOSE q \in SideIn("queued") : \A j \in SideIn("queued") : q <= j
       IN  side' = [side EXCEPT !.futures[i].state = "running"]
    /\ UNCHANGED OldVars

\* task i runs the new fetch_single_ticker to its end; the provider answers
\* as it answered task i of the first variant
NewFinishTask(i) ==
    /\ i \in SideIn("running")
    /\ i <= Len(futures)
    /\ TaskDone(i)
    /\ LET r == NewFetchSingleTicker(side.futures[i].ticker, futures[i].oc[1])
       IN  side' = [side EXCEPT !.futures[i].state = "finished",
                                !.futures[i].raised = r.raised,
                                !.futures[i].result = r.value,
                                !.finishOrder = Append(@, i)]
    /\ UNCHANGED OldVars

\* line 85: as_completed(future_to_ticker)
NewBeginCollect ==
    /\ side.pc = "submit"
    /\ Len(side.futures) = Len(side.tickers)
    /\ side' = [side EXCEPT !.pc = "collect", !.preFinished = SideIn("finished")]
    /\ UNCHANGED OldVars

\* lines 86-92: one iteration of the loop
NewMerge(i) ==
    /\ side.pc = "collect"
    /\ i \in SideIn("finished") \ side.merged
    /\ \/ i \in side.preFinished
       \/ /\ side.preFinished \subseteq side.merged
          /\ LET q == SelectSeq(side.finishOrder,
                                LAMBDA j : j \notin side.preFinished)
             IN  q # << >> /\ i = Head(q)
    /\ side' = [side EXCEPT !.results = MergeInto(@, side.futures[i]),
                            !.merged = @ \cup {i},
                            !.finishOrder = SelectSeq(@, LAMBDA j : j # i)]
    /\ UNCHANGED OldVars

\* line 94
NewReturn ==
    /\ side.pc = "collect"
    /\ side.merged = 1..Len(side.futures)
    /\ side' = [side EXCEPT !.pc = "returned"]
    /\ UNCHANGED OldVars

-----------------------------------------------------------------------------
(* The two variants side by side *)

\* one symbol as a string, and every list of two symbols
PairInputs ==
    { StrInput(UsTopStocks[1]) }
    \cup { ListInput(<<a, b>>) : a, b \in SmallSymbols }

InitPair == InitAgg(PairInputs)

NextPair ==
    \/ Call
    \/ Submit
    \/ StartTask
    \/ \E i \in 1..Len(futures) : \E oc \in Outcomes : FinishTask(i, oc)
    \/ BeginCollect
    \/ \E i \in 1..Len(futures) : Merge(i)
    \/ Return
    \/ NewCall
    \/ NewSubmit
    \/ NewStartTask
    \/ \E i \in 1..Len(side.futures) : NewFinishTask(i)
    \/ NewBeginCollect
    \/ \E i \in 1..Len(side.futures) : NewMerge(i)
    \/ NewReturn

SpecPair == InitPair /\ [][NextPair]_vars


BothReturned == pc = "returned" /\ side.pc = "returned"

\* the metadata fetch of task i of the first variant raised, or the rate
\* lookup it needed did
MetadataOrRateFailed(i) ==
    LET oc == futures[i].oc[1]
    IN  \/ oc.info_raises
        \/ NativeCurrency(futures[i].ticker, oc) # "INR" /\ oc.rate_raises

\* the history the provider has for task i is fetched and valid, and the
\* metrics can be derived from it
HistoryUsable(i) ==
    LET oc == futures[i].oc[1]
    IN  ~oc.hist_raises /\ ~InvalidHistory(oc.hist) /\ ~oc.derive_raises

\* C30: run on the same argument with the same provider answers, the two
\* variants return the same keys when no metadata fetch and no rate lookup of
\* the first variant fails; a symbol with a usable history whose metadata
\* fetch or rate lookup fails is a key of the second variant's mapping and,
\* unless another task of that symbol succeeded, no key of the first's.
C30_SameKeysUnlessMetadataOrRateFails ==
    BothReturned =>
        /\ DOMAIN results \subseteq DOMAIN side.results
        /\ (\A i \in 1..Len(futures) : ~MetadataOrRateFailed(i))
              => DOMAIN results = DOMAIN side.results
        /\ \A i \in 1..Len(futures) :
              (MetadataOrRateFailed(i) /\ HistoryUsable(i)) =>
                  /\ futures[i].ticker \in DOMAIN side.results
                  /\ (\A j \in 1..Len(futures) :
                        futures[j].ticker = futures[i].ticker
                            => ~TaskSucceeded(j))
                       => futures[i].ticker \notin DOMAIN results

\* both calls have returned; one symbol is a key of both mappings, the
\* other, whose metadata fetch raised, of the second variant's only
C30_Witness ==
    /\ BothReturned
    /\ Len(futures) = 2
    /\ futures[1].oc[1].info_raises
    /\ DOMAIN results = {futures[2].ticker}
    /\ DOMAIN side.results = {futures[1].ticker, futures[2].ticker}
    /\ futures[1].ticker # futures[2].ticker

=============================================================================
